---- MODULE Spec2Model ----
(***************************************************************************)
(* RISC-V Debug Module communication interface (probe-rs,                  *)
(* architecture/riscv/communication_interface.rs), modelled together with  *)
(* the Debug Module and hart it drives.                                    *)
(*                                                                         *)
(* 32-bit words are pairs <<hi, lo>> of 16-bit halves, so that every u32   *)
(* keeps its full width: hi = bits 31..16, lo = bits 15..0.                *)
(***************************************************************************)
EXTENDS Integers, Sequences, FiniteSets, TLC

VARIABLES hw, st, dm, last

vars == <<hw, st, dm, last>>

(***************************************************************************)
(* Words and bit fields                                                    *)
(***************************************************************************)
Half == 2 ^ 16

W(i) == <<i \div Half, i % Half>>

W0 == <<0, 0>>

Bits(x, lo, n) == (x \div (2 ^ lo)) % (2 ^ n)

B(b) == IF b THEN 1 ELSE 0

\* wrapping u32 addition
AddWW(a, b) ==
    LET s == a[2] + b[2]
    IN  <<(a[1] + b[1] + (s \div Half)) % Half, s % Half>>

\* byte i (0 = least significant) of a word
ByteOf(w, i) ==
    CASE i = 0 -> w[2] % 256
      [] i = 1 -> w[2] \div 256
      [] i = 2 -> w[1] % 256
      [] i = 3 -> w[1] \div 256

RECURSIVE CountOnes(_)
CountOnes(x) == IF x = 0 THEN 0 ELSE (x % 2) + CountOnes(x \div 2)

RECURSIVE BitOr(_, _)
BitOr(x, y) ==
    IF x = 0 THEN y
    ELSE IF y = 0 THEN x
    ELSE (IF x % 2 = 1 \/ y % 2 = 1 THEN 1 ELSE 0) + 2 * BitOr(x \div 2, y \div 2)

\* (2^n - 1) truncated to a field of `width` bits
MaskBits(n, width) == IF n >= width THEN 2 ^ width - 1 ELSE 2 ^ n - 1

(***************************************************************************)
(* RiscvBusAccess: the width codes and their byte widths                   *)
(***************************************************************************)
A8 == 0
A16 == 1
A32 == 2
A64 == 3
A128 == 4

Widths == {A8, A16, A32, A64, A128}

byte_width(w) ==
    CASE w = A8 -> 1
      [] w = A16 -> 2
      [] w = A32 -> 4
      [] w = A64 -> 8
      [] w = A128 -> 16

\* RiscvValue32::from_register_value: `value as u8`, `value as u16`, identity
from_register_value(w, v) ==
    CASE w = A8 -> <<0, v[2] % 256>>
      [] w = A16 -> <<0, v[2]>>
      [] OTHER -> v

(***************************************************************************)
(* DM register addresses                                                   *)
(***************************************************************************)
DATA0 == 4
DMCONTROL == 16
DMSTATUS == 17
HARTINFO == 18
ABSTRACTCS == 22
COMMAND == 23
ABSTRACTAUTO == 24
CONFSTRPTR0 == 25
PROGBUF0 == 32
SBCS == 56
SBADDRESS0 == 57
SBDATA0 == 60

\* LargeRegister::R0..R3_ADDRESS of Arg0 (data0..3) and Sbdata (sbdata0..3)
LargeSlot(r0, i) == r0 + i

(***************************************************************************)
(* Register bit fields                                                     *)
(***************************************************************************)
DmcontrolWord(haltreq, resumereq, ackhavereset, hartsel, dmactive) ==
    << B(haltreq) * 32768 + B(resumereq) * 16384 + B(ackhavereset) * 4096
         + (hartsel % 1024),
       ((hartsel \div 1024) % 1024) * 64 + B(dmactive) >>

DmcontrolHartsel(w) == Bits(w[2], 6, 10) * 1024 + Bits(w[1], 0, 10)

DmcontrolDmactive(w) == w[2] % 2 = 1

DmstatusWord(version, confstrptrvalid, anynonexistent, impebreak) ==
    << B(impebreak) * 64, B(anynonexistent) * 16384 + B(confstrptrvalid) * 16 + version >>

DmstatusVersion(w) == Bits(w[2], 0, 4)

DmstatusConfstrptrvalid(w) == Bits(w[2], 4, 1) = 1

DmstatusAnynonexistent(w) == Bits(w[2], 14, 1) = 1

DmstatusImpebreak(w) == Bits(w[1], 6, 1) = 1

AbstractcsWord(progbufsize, busy, cmderr, datacount) ==
    << progbufsize * 256, B(busy) * 4096 + cmderr * 256 + datacount >>

AbstractcsProgbufsize(w) == Bits(w[1], 8, 5)

AbstractcsBusy(w) == Bits(w[2], 12, 1) = 1

AbstractcsCmderr(w) == Bits(w[2], 8, 3)

AbstractcsDatacount(w) == Bits(w[2], 0, 4)

HartinfoWord(nscratch) == << nscratch * 16, 0 >>

HartinfoNscratch(w) == Bits(w[1], 4, 4)

\* Abstractauto: autoexecprogbuf 31..16, autoexecdata 11..0
AbstractautoWord(autoexecprogbuf, autoexecdata) ==
    << autoexecprogbuf % Half, autoexecdata % 4096 >>

\* AccessRegisterCommand: cmd_type 31..24, aarsize 22..20, aarpostincrement 19,
\* postexec 18, transfer 17, write 16, regno 15..0
AccessRegisterCommand(cmd_type, aarsize, postexec, transfer, write, regno) ==
    << cmd_type * 256 + aarsize * 16 + B(postexec) * 4 + B(transfer) * 2 + B(write),
       regno % Half >>

CommandCmdType(w) == Bits(w[1], 8, 8)

CommandAarsize(w) == Bits(w[1], 4, 3)

CommandPostexec(w) == Bits(w[1], 2, 1) = 1

CommandTransfer(w) == Bits(w[1], 1, 1) = 1

CommandWrite(w) == Bits(w[1], 0, 1) = 1

CommandRegno(w) == w[2]

\* Sbcs: sbversion 31..29, sbreadonaddr 20, sbaccess 19..17, sbautoincrement 16,
\* sbreadondata 15, sberror 14..12, sbaccess128..8 4..0
SbcsWord(sbversion, sbreadonaddr, sbaccess, sbautoincrement, sbreadondata, sberror, accessbits) ==
    << sbversion * 8192 + B(sbreadonaddr) * 16 + sbaccess * 2 + B(sbautoincrement),
       B(sbreadondata) * 32768 + sberror * 4096 + accessbits >>

SbcsSbversion(w) == Bits(w[1], 13, 3)

SbcsSbreadonaddr(w) == Bits(w[1], 4, 1) = 1

SbcsSbaccess(w) == Bits(w[1], 1, 3)

SbcsSbautoincrement(w) == Bits(w[1], 0, 1) = 1

SbcsSbreadondata(w) == Bits(w[2], 15, 1) = 1

SbcsSberror(w) == Bits(w[2], 12, 3)

\* sbaccess8 (bit 0) .. sbaccess128 (bit 4): the bit of width code `width`
SbcsSbaccessBit(w, width) == Bits(w[2], width, 1) = 1

(***************************************************************************)
(* Instruction assembler (assembly::lw, sw, addi, csrr, csrw, EBREAK)      *)
(***************************************************************************)
i_type_instruction(opcode, rs1, funct3, rd, imm) ==
    W(imm * 1048576 + rs1 * 32768 + funct3 * 4096 + rd * 128 + opcode)

s_type_instruction(opcode, imm, rs1, funct3, rs2) ==
    W((imm \div 32) * 33554432 + rs2 * 1048576 + rs1 * 32768 + funct3 * 4096
        + (imm % 32) * 128 + opcode)

EBREAK == W(1048691)

lw(offset, base, width, destination) == i_type_instruction(3, base, width, destination, offset)

sw(offset, base, width, source) == s_type_instruction(35, offset, base, width, source)

addi(source, destination, immediate) == i_type_instruction(19, source, 0, destination, immediate)

csrr(rd, csr) == i_type_instruction(115, 0, 2, rd, csr)

csrw(csr, rs) == i_type_instruction(115, rs, 1, 0, csr)

\* register::S0 and register::S1 (abstract register numbers of x8, x9)
S0 == 4104
S1 == 4105

(***************************************************************************)
(* The target: memory, hart registers x8/x9, CSRs, and the Debug Module.   *)
(* hw is what the hardware is (fixed); dm is what it holds.                *)
(***************************************************************************)
MemSize == 8

\* base of the mapped, side-effect-free RAM window: 0x2000_0000
RamBase == <<8192, 0>>

\* the last bytes of the address space are memory as well: 0xFFFF_FFF8..FFFF
TopBase == <<Half - 1, Half - MemSize>>

Mapped(a) ==
    \/ a[1] = RamBase[1] /\ a[2] < MemSize
    \/ a[1] = TopBase[1] /\ a[2] >= TopBase[2]

\* the offsets mem is indexed with: the low 16 bits of the mapped addresses
MemOffsets == (0..(MemSize - 1)) \cup (TopBase[2]..(Half - 1))

MappedRange(a, n) == \A i \in 0..(n - 1) : Mapped(AddWW(a, <<0, i>>))

MkWord(b0, b1, b2, b3) == <<b3 * 256 + b2, b1 * 256 + b0>>

\* bytes k..k+3 of the n-byte little-endian value at a, zero-extended
MemLoad(mem, a, k, n) ==
    LET byte(i) == IF i < n THEN mem[a[2] + i] ELSE 0
    IN  MkWord(byte(k), byte(k + 1), byte(k + 2), byte(k + 3))

\* store the low n bytes of the slots sl (a tuple of words, slot 0 first) at a
MemStore(mem, a, n, sl) ==
    [o \in DOMAIN mem |->
        IF o >= a[2] /\ o < a[2] + n
        THEN ByteOf(sl[((o - a[2]) \div 4) + 1], (o - a[2]) % 4)
        ELSE mem[o]]

SignExt(v, n) ==
    CASE n = 1 -> IF v[2] % 256 >= 128 THEN <<65535, 65280 + (v[2] % 256)>> ELSE <<0, v[2] % 256>>
      [] n = 2 -> IF v[2] >= 32768 THEN <<65535, v[2]>> ELSE <<0, v[2]>>
      [] OTHER -> v

SignExt12(imm) == IF imm >= 2048 THEN <<65535, 61440 + imm>> ELSE <<0, imm>>

HartRegs == {0, 8, 9}

Reg(d, r) == IF r = 0 THEN W0 ELSE d.x[r]

SetReg(d, r, v) == IF r = 0 THEN d ELSE [d EXCEPT !.x[r] = v]

\* one instruction of the program buffer on the hart: [dm, exc]
ExecInstr(d, i) ==
    LET opcode == i[2] % 128
        rd == Bits(i[2], 7, 5)
        funct3 == Bits(i[2], 12, 3)
        rs1 == (i[1] % 16) * 2 + (i[2] \div 32768)
        rs2 == Bits(i[1], 4, 5)
        immI == i[1] \div 16
        immS == (i[1] \div 512) * 32 + rd
        fault == [dm |-> d, exc |-> TRUE]
    IN  CASE opcode = 3 /\ funct3 \in {0, 1, 2} /\ rs1 \in HartRegs /\ rd \in HartRegs ->
               LET a == AddWW(Reg(d, rs1), SignExt12(immI))
                   n == 2 ^ funct3
               IN  IF MappedRange(a, n)
                   THEN [dm |-> [SetReg(d, rd, SignExt(MemLoad(d.mem, a, 0, n), n))
                                   EXCEPT !.acc = Append(d.acc, <<"load", a, n>>)],
                         exc |-> FALSE]
                   ELSE fault
          [] opcode = 35 /\ funct3 \in {0, 1, 2} /\ rs1 \in HartRegs /\ rs2 \in HartRegs ->
               LET a == AddWW(Reg(d, rs1), SignExt12(immS))
                   n == 2 ^ funct3
               IN  IF MappedRange(a, n)
                   THEN [dm |-> [d EXCEPT !.mem = MemStore(d.mem, a, n, <<Reg(d, rs2)>>),
                                          !.acc = Append(d.acc, <<"store", a, n>>)],
                         exc |-> FALSE]
                   ELSE fault
          [] opcode = 19 /\ funct3 = 0 /\ rs1 \in HartRegs /\ rd \in HartRegs ->
               [dm |-> SetReg(d, rd, AddWW(Reg(d, rs1), SignExt12(immI))), exc |-> FALSE]
          [] opcode = 115 /\ funct3 = 2 /\ rs1 = 0 /\ rd \in HartRegs /\ immI \in DOMAIN d.csr ->
               [dm |-> SetReg(d, rd, d.csr[immI]), exc |-> FALSE]
          [] opcode = 115 /\ funct3 = 1 /\ rd = 0 /\ rs1 \in HartRegs /\ immI \in DOMAIN d.csr ->
               [dm |-> [d EXCEPT !.csr[immI] = Reg(d, rs1)], exc |-> FALSE]
          [] OTHER -> fault

\* number of progbuf words the hardware implements
HwProgbufSize(h) == IF h.progbufsize > 16 THEN 16 ELSE h.progbufsize

\* run the program buffer from word pc up to an ebreak (explicit or implicit)
RECURSIVE RunProgbuf(_, _, _)
RunProgbuf(h, d, pc) ==
    LET Executed(r) == IF r.exc THEN r ELSE RunProgbuf(h, r.dm, pc + 1)
    IN  IF pc >= HwProgbufSize(h)
        THEN [dm |-> d, exc |-> ~h.impebreak]
        ELSE IF d.progbuf[pc + 1] = EBREAK
        THEN [dm |-> d, exc |-> FALSE]
        ELSE Executed(ExecInstr(d, d.progbuf[pc + 1]))

AbstractRegs(d) == {S0, S1} \cup DOMAIN d.csr

RegGet(d, regno) ==
    CASE regno = S0 -> d.x[8]
      [] regno = S1 -> d.x[9]
      [] OTHER -> d.csr[regno]

RegPut(d, regno, v) ==
    CASE regno = S0 -> [d EXCEPT !.x[8] = v]
      [] regno = S1 -> [d EXCEPT !.x[9] = v]
      [] OTHER -> [d EXCEPT !.csr[regno] = v]

\* the DM starts an abstract command: transfer, then postexec; cmderr latches
DmCommand(h, d, cmd) ==
    LET transfer == CommandTransfer(cmd)
        write == CommandWrite(cmd)
        regno == CommandRegno(cmd)
        unsupported ==
            \/ CommandCmdType(cmd) # 0
            \/ transfer /\ CommandAarsize(cmd) # A32
            \/ transfer /\ regno \notin AbstractRegs(d)
            \/ transfer /\ write /\ regno \in h.noWrite
            \/ transfer /\ ~write /\ regno \in h.noRead
            \/ CommandPostexec(cmd) /\ HwProgbufSize(h) = 0
        Transferred ==
            IF ~transfer THEN d
            ELSE IF write THEN RegPut(d, regno, d.data[1])
            ELSE [d EXCEPT !.data[1] = RegGet(d, regno)]
        Ran(r) == IF ~CommandPostexec(cmd) THEN Transferred
                  ELSE IF r.exc THEN [r.dm EXCEPT !.cmderr = 3]
                  ELSE r.dm
        Started(d2) == [d2 EXCEPT !.busy = h.latency]
    IN  IF ~h.halted THEN [d EXCEPT !.cmderr = 4, !.busy = h.latency]
        ELSE IF unsupported THEN [d EXCEPT !.cmderr = 2, !.busy = h.latency]
        ELSE IF transfer /\ regno \in h.faulty
        THEN [d EXCEPT !.cmderr = h.fault, !.busy = h.latency]
        ELSE Started(Ran(RunProgbuf(h, Transferred, 0)))

\* an access to data/progbuf/abstractauto/abstractcs while a command runs
DmBusyError(d) == IF d.cmderr = 0 THEN [d EXCEPT !.cmderr = 1] ELSE d

\* write-1-to-clear of a 3-bit field
W1C(field, ones) ==
    (IF Bits(ones, 0, 1) = 1 THEN 0 ELSE Bits(field, 0, 1))
    + 2 * (IF Bits(ones, 1, 1) = 1 THEN 0 ELSE Bits(field, 1, 1))
    + 4 * (IF Bits(ones, 2, 1) = 1 THEN 0 ELSE Bits(field, 2, 1))

SbSlots(n) == IF n <= 4 THEN 1 ELSE n \div 4

\* the DM's system bus master performs one read at sbaddress0
SbRead(h, d) ==
    LET n == byte_width(d.sbaccess)
    IN  IF d.sberror # 0 THEN d
        ELSE IF d.sbaccess \notin h.sbaccess THEN [d EXCEPT !.sberror = 4]
        ELSE IF ~MappedRange(d.sbaddress0, n) THEN [d EXCEPT !.sberror = 2]
        ELSE [d EXCEPT
                !.sbdata = [i \in 1..4 |->
                              IF i <= SbSlots(n)
                              THEN MemLoad(d.mem, d.sbaddress0, 4 * (i - 1), n)
                              ELSE d.sbdata[i]],
                !.acc = Append(d.acc, <<"sbread", d.sbaddress0, n>>),
                !.sbaddress0 = IF d.sbautoincrement
                               THEN AddWW(d.sbaddress0, <<0, n>>) ELSE d.sbaddress0]

\* the DM's system bus master performs one write at sbaddress0
SbWrite(h, d) ==
    LET n == byte_width(d.sbaccess)
    IN  IF d.sberror # 0 THEN d
        ELSE IF d.sbaccess \notin h.sbaccess THEN [d EXCEPT !.sberror = 4]
        ELSE IF ~MappedRange(d.sbaddress0, n) THEN [d EXCEPT !.sberror = 2]
        ELSE [d EXCEPT
                !.mem = MemStore(d.mem, d.sbaddress0, n, d.sbdata),
                !.acc = Append(d.acc, <<"sbwrite", d.sbaddress0, n>>),
                !.sbaddress0 = IF d.sbautoincrement
                               THEN AddWW(d.sbaddress0, <<0, n>>) ELSE d.sbaddress0]

SbAccessBits(h) ==
    B(A8 \in h.sbaccess) + 2 * B(A16 \in h.sbaccess) + 4 * B(A32 \in h.sbaccess)
    + 8 * B(A64 \in h.sbaccess) + 16 * B(A128 \in h.sbaccess)

Busy(d) == d.busy # 0

\* time passes: a running command comes closer to its end (-1: it never ends)
Tick(d) == IF d.busy > 0 THEN [d EXCEPT !.busy = d.busy - 1] ELSE d

\* the DM's reaction to a DMI write
DmWrite(h, d, a, v) ==
    CASE a = DMCONTROL ->
             Tick([d EXCEPT !.hartsel = DmcontrolHartsel(v) % (2 ^ h.hartsellen),
                            !.dmactive = DmcontrolDmactive(v)])
      [] a = ABSTRACTCS ->
             Tick(IF Busy(d) THEN DmBusyError(d)
                  ELSE [d EXCEPT !.cmderr = W1C(d.cmderr, AbstractcsCmderr(v))])
      [] a = COMMAND ->
             IF d.cmderr # 0 THEN Tick(d)
             ELSE IF Busy(d) THEN Tick(DmBusyError(d))
             ELSE DmCommand(h, d, v)
      [] a = ABSTRACTAUTO ->
             Tick(IF Busy(d) THEN DmBusyError(d)
                  ELSE IF ~h.autoexec THEN d
                  ELSE [d EXCEPT !.abstractauto =
                          << v[1] % (2 ^ HwProgbufSize(h)),
                             (v[2] % 4096) % (2 ^ h.datacount) >>])
      [] a >= DATA0 /\ a < DATA0 + 4 ->
             Tick(IF Busy(d) THEN DmBusyError(d)
                  ELSE [d EXCEPT !.data[a - DATA0 + 1] = v])
      [] a >= PROGBUF0 /\ a < PROGBUF0 + 16 ->
             Tick(IF Busy(d) THEN DmBusyError(d)
                  ELSE IF a - PROGBUF0 >= HwProgbufSize(h) THEN d
                  ELSE [d EXCEPT !.progbuf[a - PROGBUF0 + 1] = v])
      [] a = SBCS ->
             Tick([d EXCEPT !.sbaccess = SbcsSbaccess(v),
                            !.sbreadonaddr = SbcsSbreadonaddr(v),
                            !.sbautoincrement = SbcsSbautoincrement(v),
                            !.sbreadondata = SbcsSbreadondata(v),
                            !.sberror = W1C(d.sberror, SbcsSberror(v))])
      [] a = SBADDRESS0 ->
             Tick(LET d1 == [d EXCEPT !.sbaddress0 = v]
                  IN  IF d.sbreadonaddr THEN SbRead(h, d1) ELSE d1)
      [] a = SBDATA0 ->
             Tick(SbWrite(h, [d EXCEPT !.sbdata[1] = v]))
      [] a > SBDATA0 /\ a < SBDATA0 + 4 ->
             Tick([d EXCEPT !.sbdata[a - SBDATA0 + 1] = v])
      [] OTHER -> Tick(d)

\* the DM's reaction to a DMI read: the value returned and the DM afterwards
DmRead(h, d, a) ==
    CASE a = DMSTATUS ->
             [val |-> DmstatusWord(h.version, h.confstrptrvalid,
                                   d.hartsel >= h.nharts, h.impebreak),
              dm |-> Tick(d)]
      [] a = DMCONTROL ->
             [val |-> DmcontrolWord(FALSE, FALSE, FALSE, d.hartsel, d.dmactive),
              dm |-> Tick(d)]
      [] a = HARTINFO -> [val |-> HartinfoWord(h.nscratch), dm |-> Tick(d)]
      [] a = ABSTRACTCS ->
             [val |-> AbstractcsWord(h.progbufsize, Busy(d), d.cmderr, h.datacount),
              dm |-> Tick(d)]
      [] a = ABSTRACTAUTO -> [val |-> d.abstractauto, dm |-> Tick(d)]
      [] a >= CONFSTRPTR0 /\ a < CONFSTRPTR0 + 4 ->
             [val |-> h.confstrptr[a - CONFSTRPTR0 + 1], dm |-> Tick(d)]
      [] a >= DATA0 /\ a < DATA0 + 4 ->
             [val |-> d.data[a - DATA0 + 1],
              dm |-> Tick(IF Busy(d) THEN DmBusyError(d) ELSE d)]
      [] a = SBCS ->
             [val |-> SbcsWord(h.sbversion, d.sbreadonaddr, d.sbaccess, d.sbautoincrement,
                               d.sbreadondata, d.sberror, SbAccessBits(h)),
              dm |-> Tick(d)]
      [] a = SBADDRESS0 -> [val |-> d.sbaddress0, dm |-> Tick(d)]
      [] a = SBDATA0 ->
             [val |-> d.sbdata[1],
              dm |-> Tick(IF d.sbreadondata THEN SbRead(h, d) ELSE d)]
      [] a > SBDATA0 /\ a < SBDATA0 + 4 ->
             [val |-> d.sbdata[a - SBDATA0 + 1], dm |-> Tick(d)]
      [] OTHER -> [val |-> W0, dm |-> Tick(d)]

(***************************************************************************)
(* The interface and its DTM.  A machine m carries the interface state     *)
(* (st), the DTM (pending read data, scheduled queue q), the target (dm),  *)
(* the result so far (err, ret) and the DMI operations issued (tr).        *)
(* Every step leaves m alone once err is set: that is the `?` of the code. *)
(***************************************************************************)
Err(kind, name, num) == [kind |-> kind, name |-> name, num |-> num]

Ok == Err("Ok", "", 0)

IsOk(m) == m.err = Ok

Fail(m, e) == IF IsOk(m) THEN [m EXCEPT !.err = e] ELSE m

SetSt(m, s) == IF IsOk(m) THEN [m EXCEPT !.st = s] ELSE m

SetRet(m, v) == IF IsOk(m) THEN [m EXCEPT !.ret = v] ELSE m

\* AbstractCommandErrorKind::parse
AbstractCommandErrorKind(value) ==
    CASE value = 0 -> Err("AbstractCommand", "None", 0)
      [] value = 1 -> Err("AbstractCommand", "Busy", 1)
      [] value = 2 -> Err("AbstractCommand", "NotSupported", 2)
      [] value = 3 -> Err("AbstractCommand", "Exception", 3)
      [] value = 4 -> Err("AbstractCommand", "HaltResume", 4)
      [] value = 5 -> Err("AbstractCommand", "Bus", 5)
      [] value = 6 -> Err("AbstractCommand", "_Reserved", 6)
      [] value = 7 -> Err("AbstractCommand", "Other", 7)
      [] OTHER -> Err("panic", "cmderr is a 3 bit value", value)

NotSupported == AbstractCommandErrorKind(2)

\* a decoding that takes version 3 for 0.13 as well
DebugModuleVersion_lax(raw) ==
    CASE raw = 0 -> <<"NoModule", 0>>
      [] raw = 1 -> <<"Version0_11", 1>>
      [] raw \in {2, 3} -> <<"Version0_13", 2>>
      [] raw = 15 -> <<"NonConforming", 15>>
      [] OTHER -> <<"Unknown", raw>>

\* impl From<u8> for DebugModuleVersion
DebugModuleVersion(raw) ==
    CASE raw = 0 -> <<"NoModule", 0>>
      [] raw = 1 -> <<"Version0_11", 1>>
      [] raw = 2 -> <<"Version0_13", 2>>
      [] raw = 15 -> <<"NonConforming", 15>>
      [] OTHER -> <<"Unknown", raw>>

Version0_13 == DebugModuleVersion(2)

\* CoreRegisterAbstractCmdSupport
READ == 1
WRITE == 2
BOTH == 3

supports(status, o) == Bits(status, o - 1, 1) = 1

unset(status, o) == IF supports(status, o) THEN status - o ELSE status

\* the DTM performs one DMI operation (dmi_register_access_with_timeout)
Dmi(m, op, a, v) ==
    LET Done(d, pending) ==
            [m EXCEPT !.n = m.n + 1,
                      !.tr = Append(m.tr, [op |-> op, addr |-> a, val |-> v,
                                           cmderr |-> m.dm.cmderr, busy |-> Busy(m.dm)]),
                      !.dm = d, !.ret = m.pending, !.pending = pending]
        Answered(r) == Done(r.dm, r.val)
    IN  IF ~IsOk(m) THEN m
        ELSE IF m.n + 1 = m.failAt
        THEN [m EXCEPT !.n = m.n + 1, !.err = Err("DmiTransfer", "", 0)]
        ELSE CASE op = "Write" -> Done(DmWrite(m.h, m.dm, a, v), m.pending)
               [] op = "Read" -> Answered(DmRead(m.h, m.dm, a))
               [] OTHER -> Done(Tick(m.dm), m.pending)

read_dm_register_untyped(m, address) ==
    Dmi(Dmi(m, "Read", address, W0), "NoOp", 0, W0)

write_dm_register_untyped(m, address, value) == Dmi(m, "Write", address, value)

\* schedule_dmi_register_access: enqueue, hand back the index of the operation
Schedule(m, op, a, v) ==
    IF ~IsOk(m) THEN m
    ELSE [m EXCEPT !.q = Append(m.q, [op |-> op, addr |-> a, val |-> v]),
                   !.idx = Len(m.q) + 1]

schedule_write_dm_register_untyped(m, address, value) == Schedule(m, "Write", address, value)

schedule_read_dm_register_untyped(m, address) ==
    Schedule(Schedule(m, "Read", address, W0), "NoOp", 0, W0)

\* Dtm::execute: drain the queue in scheduling order, one result per operation
RECURSIVE Drain(_, _)
Drain(m, i) ==
    LET Collected(m1) == IF IsOk(m1) THEN [m1 EXCEPT !.res = Append(m1.res, m1.ret)] ELSE m1
    IN  IF ~IsOk(m) \/ i > Len(m.q) THEN m
        ELSE Drain(Collected(Dmi(m, m.q[i].op, m.q[i].addr, m.q[i].val)), i + 1)

execute(m) ==
    LET Drained(m1) == IF IsOk(m1) THEN [m1 EXCEPT !.q = <<>>]
                       ELSE [m1 EXCEPT !.q = <<>>, !.err = Err("DebugProbe", "", 0)]
    IN  IF ~IsOk(m) THEN m
        ELSE Drained(Drain([m EXCEPT !.res = <<>>], 1))

\* RiscvCommunicationInterfaceState::new
NewState ==
    [debug_version |-> DebugModuleVersion(15),
     progbuf_size |-> 0,
     progbuf_cache |-> [i \in 1..16 |-> W0],
     implicit_ebreak |-> FALSE,
     data_register_count |-> 1,
     nscratch |-> 0,
     supports_autoexec |-> FALSE,
     confstrptr |-> <<>>,
     hartsellen |-> 20,
     num_harts |-> 1,
     memory_access_info |-> [w \in Widths |-> "Absent"],
     abstract_cmd_register_info |-> [r \in {} |-> BOTH]]

\* memory_access_method: the entry for the width, inserting ProgramBuffer if absent
memory_access_method(s, access_width) ==
    IF s.memory_access_info[access_width] = "Absent"
    THEN "ProgramBuffer" ELSE s.memory_access_info[access_width]

\* a lookup that inserts AbstractCommand for a width without entry
memory_access_insert_abstract(s, access_width) ==
    IF s.memory_access_info[access_width] = "Absent"
    THEN [s EXCEPT !.memory_access_info[access_width] = "AbstractCommand"] ELSE s

memory_access_insert(s, access_width) ==
    IF s.memory_access_info[access_width] = "Absent"
    THEN [s EXCEPT !.memory_access_info[access_width] = "ProgramBuffer"] ELSE s

\* an enumeration that counts the index it stops at as well
RECURSIVE EnumerateHarts_countall(_, _, _, _)
EnumerateHarts_countall(m, hart_index, max_hart_index, num_harts) ==
    LET Selected(m2) ==
            IF ~IsOk(m2) \/ DmstatusAnynonexistent(m2.ret)
            THEN [m |-> m2, num_harts |-> num_harts + 1]
            ELSE EnumerateHarts_countall(m2, hart_index + 1, max_hart_index, num_harts + 1)
    IN  IF hart_index >= max_hart_index \/ ~IsOk(m)
        THEN [m |-> m, num_harts |-> num_harts]
        ELSE Selected(read_dm_register_untyped(
                 write_dm_register_untyped(m, DMCONTROL,
                     DmcontrolWord(FALSE, FALSE, FALSE, hart_index, TRUE)),
                 DMSTATUS))

\* the hart enumeration loop of enter_debug_mode: [m, num_harts]
RECURSIVE EnumerateHarts(_, _, _, _)
EnumerateHarts(m, hart_index, max_hart_index, num_harts) ==
    LET Selected(m2) ==
            IF ~IsOk(m2) \/ DmstatusAnynonexistent(m2.ret)
            THEN [m |-> m2, num_harts |-> num_harts]
            ELSE EnumerateHarts(m2, hart_index + 1, max_hart_index, num_harts + 1)
    IN  IF hart_index >= max_hart_index \/ ~IsOk(m)
        THEN [m |-> m, num_harts |-> num_harts]
        ELSE Selected(read_dm_register_untyped(
                 write_dm_register_untyped(m, DMCONTROL,
                     DmcontrolWord(FALSE, FALSE, FALSE, hart_index, TRUE)),
                 DMSTATUS))

\* the sbcs part of enter_debug_mode: SystemBus for every width sbcs offers
\* system bus access recorded whatever version sbcs reports
SbcsAccessInfo_anyversion(s, sbcs) ==
    [s EXCEPT !.memory_access_info =
        [w \in Widths |-> IF SbcsSbaccessBit(sbcs, w) THEN "SystemBus"
                          ELSE s.memory_access_info[w]]]

SbcsAccessInfo(s, sbcs) ==
    IF SbcsSbversion(sbcs) = 1
    THEN [s EXCEPT !.memory_access_info =
            [w \in Widths |-> IF SbcsSbaccessBit(sbcs, w) THEN "SystemBus"
                              ELSE s.memory_access_info[w]]]
    ELSE s

\* the confstrptr part of enter_debug_mode: <<bits 127..32, bits 31..0>> of
\* c0 | c1 << 8 | c2 << 16 | c3 << 32 (the words are below 2^15 here)
ReadConfstrptr(m) ==
    LET NoLocals == IF IsOk(m) THEN [m EXCEPT !.loc = <<>>] ELSE m
        Kept(x) == IF IsOk(x) THEN [x EXCEPT !.loc = Append(x.loc, x.ret)] ELSE x
        Stored(x) ==
            IF IsOk(x)
            THEN [x EXCEPT !.st.confstrptr =
                               << x.loc[4][2],
                                  BitOr(BitOr(x.loc[1][2], x.loc[2][2] * 256),
                                        x.loc[3][2] * Half) >>]
            ELSE x
    IN  Stored(
          Kept(read_dm_register_untyped(
            Kept(read_dm_register_untyped(
              Kept(read_dm_register_untyped(
                Kept(read_dm_register_untyped(NoLocals, CONFSTRPTR0)),
                CONFSTRPTR0 + 1)),
              CONFSTRPTR0 + 2)),
            CONFSTRPTR0 + 3)))

enter_debug_mode(m) ==
    LET \* the state fields taken from the dmstatus just read; an unsupported
        \* version returns at once
        Status(x) ==
            IF ~IsOk(x) THEN x
            ELSE IF DebugModuleVersion(DmstatusVersion(x.ret)) # Version0_13
            THEN [x EXCEPT !.st.debug_version = DebugModuleVersion(DmstatusVersion(x.ret)),
                           !.err = Err("UnsupportedDebugModuleVersion",
                                       DebugModuleVersion(DmstatusVersion(x.ret))[1],
                                       DebugModuleVersion(DmstatusVersion(x.ret))[2])]
            ELSE [x EXCEPT !.st.debug_version = DebugModuleVersion(DmstatusVersion(x.ret)),
                           !.st.implicit_ebreak = DmstatusImpebreak(x.ret)]
        Confstrptr(x) ==
            IF IsOk(x) /\ DmstatusConfstrptrvalid(x.ret) THEN ReadConfstrptr(x) ELSE x
        Hartsellen(x) ==
            SetSt(x, [x.st EXCEPT !.hartsellen = CountOnes(DmcontrolHartsel(x.ret))])
        NumHarts(e) == SetSt(e.m, [e.m.st EXCEPT !.num_harts = e.num_harts])
        Harts(x) == NumHarts(EnumerateHarts(x, 1, 2 ^ x.st.hartsellen, 1))
        Sizes(x) ==
            SetSt(x, [x.st EXCEPT !.progbuf_size = AbstractcsProgbufsize(x.ret),
                                  !.data_register_count = AbstractcsDatacount(x.ret)])
        Nscratch(x) == SetSt(x, [x.st EXCEPT !.nscratch = HartinfoNscratch(x.ret)])
        abstractauto(s) == AbstractautoWord(MaskBits(s.progbuf_size, 16),
                                            MaskBits(s.data_register_count, 12))
        WriteAuto(x) == write_dm_register_untyped(x, ABSTRACTAUTO, abstractauto(x.st))
        Autoexec(x) ==
            SetSt(x, [x.st EXCEPT !.supports_autoexec = (x.ret = abstractauto(x.st))])
        Sbcs(x) == SetSt(x, SbcsAccessInfo(x.st, x.ret))
        hart(i) == DmcontrolWord(FALSE, FALSE, FALSE, i, TRUE)
    \* the steps in order, from the innermost call outwards: dmstatus and
    \* confstrptr; enable the debug module; set_hartsel(0xffff_ffff), the 20
    \* bits of the field all set, and read it back; enumerate the harts; select
    \* hart 0 again; abstractcs; hartinfo; the abstractauto probe; sbcs
    IN  Sbcs(read_dm_register_untyped(
          write_dm_register_untyped(
            Autoexec(read_dm_register_untyped(
              WriteAuto(
                Nscratch(read_dm_register_untyped(
                  Sizes(read_dm_register_untyped(
                    write_dm_register_untyped(
                      Harts(
                        Hartsellen(read_dm_register_untyped(
                          write_dm_register_untyped(
                            write_dm_register_untyped(
                              Confstrptr(
                                Status(read_dm_register_untyped(m, DMSTATUS))),
                              DMCONTROL, hart(0)),
                            DMCONTROL, hart(1048575)),
                          DMCONTROL))),
                      DMCONTROL, hart(0)),
                    ABSTRACTCS)),
                  HARTINFO))),
              ABSTRACTAUTO)),
            ABSTRACTAUTO, W0),
          SBCS))

write_progbuf(m, index, value) ==
    IF index <= 15 THEN write_dm_register_untyped(m, PROGBUF0 + index, value)
    ELSE Fail(m, Err("UnsupportedProgramBufferRegister", "", index))

\* an upload that writes the last word first
RECURSIVE WriteProgbufWords_descending(_, _, _)
WriteProgbufWords_descending(m, data, index) ==
    IF index >= Len(data) THEN m
    ELSE write_progbuf(WriteProgbufWords_descending(m, data, index + 1),
                       index, data[index + 1])

RECURSIVE WriteProgbufWords(_, _, _)
WriteProgbufWords(m, data, index) ==
    IF index >= Len(data) THEN m
    ELSE WriteProgbufWords(write_progbuf(m, index, data[index + 1]), data, index + 1)

\* a setup that leaves no room for the ebreak it writes
setup_program_buffer_noroom(m, data) ==
    LET Ebreak(x) == IF ~m.st.implicit_ebreak \/ Len(data) < m.st.progbuf_size
                     THEN write_progbuf(x, Len(data), EBREAK)
                     ELSE x
        Cached(x) == SetSt(x, [x.st EXCEPT !.progbuf_cache =
                         [i \in 1..16 |-> IF i <= Len(data) THEN data[i]
                                          ELSE x.st.progbuf_cache[i]]])
    IN  IF ~IsOk(m) THEN m
        ELSE IF Len(data) > m.st.progbuf_size
        THEN Fail(m, Err("ProgramBufferTooSmall", "", 0))
        ELSE IF data = SubSeq(m.st.progbuf_cache, 1, Len(data))
        THEN m
        ELSE Cached(Ebreak(WriteProgbufWords(m, data, 0)))

\* a setup that uploads the program whatever the cache holds
setup_program_buffer_nocache(m, data) ==
    LET required_len == IF m.st.implicit_ebreak THEN Len(data) ELSE Len(data) + 1
        Ebreak(x) == IF ~m.st.implicit_ebreak \/ Len(data) < m.st.progbuf_size
                     THEN write_progbuf(x, Len(data), EBREAK)
                     ELSE x
        Cached(x) == SetSt(x, [x.st EXCEPT !.progbuf_cache =
                         [i \in 1..16 |-> IF i <= Len(data) THEN data[i]
                                          ELSE x.st.progbuf_cache[i]]])
    IN  IF ~IsOk(m) THEN m
        ELSE IF required_len > m.st.progbuf_size
        THEN Fail(m, Err("ProgramBufferTooSmall", "", 0))
        ELSE Cached(Ebreak(WriteProgbufWords(m, data, 0)))

\* a setup that takes whatever program the cache holds as up to date
setup_program_buffer_anycache(m, data) ==
    LET required_len == IF m.st.implicit_ebreak THEN Len(data) ELSE Len(data) + 1
        Ebreak(x) == IF ~m.st.implicit_ebreak \/ Len(data) < m.st.progbuf_size
                     THEN write_progbuf(x, Len(data), EBREAK)
                     ELSE x
        Cached(x) == SetSt(x, [x.st EXCEPT !.progbuf_cache =
                         [i \in 1..16 |-> IF i <= Len(data) THEN data[i]
                                          ELSE x.st.progbuf_cache[i]]])
    IN  IF ~IsOk(m) THEN m
        ELSE IF required_len > m.st.progbuf_size
        THEN Fail(m, Err("ProgramBufferTooSmall", "", 0))
        ELSE IF m.st.progbuf_cache[1] # W0
        THEN m
        ELSE Cached(Ebreak(WriteProgbufWords(m, data, 0)))

setup_program_buffer(m, data) ==
    LET required_len == IF m.st.implicit_ebreak THEN Len(data) ELSE Len(data) + 1
        Ebreak(x) == IF ~m.st.implicit_ebreak \/ Len(data) < m.st.progbuf_size
                     THEN write_progbuf(x, Len(data), EBREAK)
                     ELSE x
        Cached(x) == SetSt(x, [x.st EXCEPT !.progbuf_cache =
                         [i \in 1..16 |-> IF i <= Len(data) THEN data[i]
                                          ELSE x.st.progbuf_cache[i]]])
    IN  IF ~IsOk(m) THEN m
        ELSE IF required_len > m.st.progbuf_size
        THEN Fail(m, Err("ProgramBufferTooSmall", "", 0))
        ELSE IF Len(data) > 16
        THEN Fail(m, Err("panic", "range end index out of range", Len(data)))
        ELSE IF data = SubSeq(m.st.progbuf_cache, 1, Len(data))
        THEN m
        ELSE Cached(Ebreak(WriteProgbufWords(m, data, 0)))

\* a turn that takes the command as finished when the timeout has elapsed
PollTurn_silent(m, elapsed) ==
    LET Turn(x) == IF IsOk(x) /\ AbstractcsBusy(x.ret) /\ elapsed
                   THEN SetRet(x, AbstractcsWord(0, FALSE, 0, 0))
                   ELSE x
    IN  Turn(read_dm_register_untyped(m, ABSTRACTCS))

\* one turn of the busy polling loop of execute_abstract_command: abstractcs is
\* read; Timeout when it shows busy and the timeout has elapsed
PollTurn(m, elapsed) ==
    LET Turn(x) == IF IsOk(x) /\ AbstractcsBusy(x.ret) /\ elapsed
                   THEN Fail(x, Err("Timeout", "", 0))
                   ELSE x
    IN  Turn(read_dm_register_untyped(m, ABSTRACTCS))

\* the loop takes another turn
Polling(m) == IsOk(m) /\ AbstractcsBusy(m.ret)

\* the busy polling loop of execute_abstract_command; the timeout has elapsed
\* after m.polls polls that saw busy
RECURSIVE PollBusy(_, _)
PollBusy(m, k) ==
    LET Polled(m1) == IF Polling(m1) THEN PollBusy(m1, k + 1) ELSE m1
    IN  Polled(PollTurn(m, k >= m.polls))

\* a posting that writes cmderr = 7 whatever abstractcs showed
PostCommand_clearing(m, command) ==
    write_dm_register_untyped(
      write_dm_register_untyped(
        read_dm_register_untyped(
          write_dm_register_untyped(m, DMCONTROL,
              DmcontrolWord(FALSE, FALSE, TRUE, 0, TRUE)),
          ABSTRACTCS),
        ABSTRACTCS, AbstractcsWord(0, FALSE, 7, 0)),
      COMMAND, command)

\* a posting whose dmcontrol value leaves dmactive clear
PostCommand_inactive(m, command) ==
    LET Cleared(x) ==
            IF AbstractcsCmderr(x.ret) # 0
            THEN write_dm_register_untyped(x, ABSTRACTCS, AbstractcsWord(0, FALSE, 7, 0))
            ELSE x
    IN  write_dm_register_untyped(
          Cleared(
            read_dm_register_untyped(
              write_dm_register_untyped(m, DMCONTROL,
                  DmcontrolWord(FALSE, FALSE, TRUE, 0, FALSE)),
              ABSTRACTCS)),
          COMMAND, command)

\* execute_abstract_command up to the write of the command register, from the
\* innermost call outwards: ackhavereset; read abstractcs and clear a latched
\* cmderr; post the command
PostCommand(m, command) ==
    LET Cleared(x) ==
            IF AbstractcsCmderr(x.ret) # 0
            THEN write_dm_register_untyped(x, ABSTRACTCS, AbstractcsWord(0, FALSE, 7, 0))
            ELSE x
    IN  write_dm_register_untyped(
          Cleared(
            read_dm_register_untyped(
              write_dm_register_untyped(m, DMCONTROL,
                  DmcontrolWord(FALSE, FALSE, TRUE, 0, TRUE)),
              ABSTRACTCS)),
          COMMAND, command)

\* execute_abstract_command after the loop: look at cmderr
FinishCommand(x) ==
    IF IsOk(x) /\ AbstractcsCmderr(x.ret) # 0
    THEN Fail(x, AbstractCommandErrorKind(AbstractcsCmderr(x.ret)))
    ELSE x

\* an execution that posts the command without clearing a latched cmderr
execute_abstract_command_noclear(m, command) ==
    LET Finished(x) == IF IsOk(x) /\ AbstractcsCmderr(x.ret) # 0
                       THEN Fail(x, AbstractCommandErrorKind(AbstractcsCmderr(x.ret)))
                       ELSE x
    IN  Finished(
          PollBusy(
            write_dm_register_untyped(
              read_dm_register_untyped(
                write_dm_register_untyped(m, DMCONTROL,
                    DmcontrolWord(FALSE, FALSE, TRUE, 0, TRUE)),
                ABSTRACTCS),
              COMMAND, command),
            1))

execute_abstract_command(m, command) ==
    FinishCommand(PollBusy(PostCommand(m, command), 1))

\* a check that forgets what the capability map has recorded
check_abstract_cmd_register_support_forgetful(s, regno, rw) == TRUE

check_abstract_cmd_register_support(s, regno, rw) ==
    IF regno \in DOMAIN s.abstract_cmd_register_info
    THEN supports(s.abstract_cmd_register_info[regno], rw)
    ELSE TRUE

\* an entry rebuilt from BOTH at every failure: what was cleared before is set again
set_abstract_cmd_register_unsupported_rebuilt(s, regno, rw) ==
    [s EXCEPT !.abstract_cmd_register_info =
        [r \in DOMAIN s.abstract_cmd_register_info \cup {regno} |->
            IF r = regno THEN unset(BOTH, rw) ELSE s.abstract_cmd_register_info[r]]]

set_abstract_cmd_register_unsupported(s, regno, rw) ==
    LET entry == IF regno \in DOMAIN s.abstract_cmd_register_info
                 THEN s.abstract_cmd_register_info[regno] ELSE BOTH
    IN  [s EXCEPT !.abstract_cmd_register_info =
            [r \in DOMAIN s.abstract_cmd_register_info \cup {regno} |->
                IF r = regno THEN unset(entry, rw) ELSE s.abstract_cmd_register_info[r]]]

\* a read that records the register as unreadable after any failed command
abstract_cmd_register_read_anyerror(m, regno) ==
    LET Noted(m1) ==
            IF ~IsOk(m1)
            THEN [m1 EXCEPT !.st = set_abstract_cmd_register_unsupported(m1.st, regno, READ)]
            ELSE m1
    IN  IF ~IsOk(m) THEN m
        ELSE IF ~check_abstract_cmd_register_support(m.st, regno, READ)
        THEN Fail(m, NotSupported)
        ELSE read_dm_register_untyped(
                 Noted(execute_abstract_command(m,
                           AccessRegisterCommand(0, A32, FALSE, TRUE, FALSE, regno))),
                 DATA0)

abstract_cmd_register_read(m, regno) ==
    LET \* NotSupported is recorded and returned; data0 is read after a success
        Noted(m1) ==
            IF m1.err = NotSupported
            THEN [m1 EXCEPT !.st = set_abstract_cmd_register_unsupported(m1.st, regno, READ)]
            ELSE m1
    IN  IF ~IsOk(m) THEN m
        ELSE IF ~check_abstract_cmd_register_support(m.st, regno, READ)
        THEN Fail(m, NotSupported)
        ELSE read_dm_register_untyped(
                 Noted(execute_abstract_command(m,
                           AccessRegisterCommand(0, A32, FALSE, TRUE, FALSE, regno))),
                 DATA0)

\* RiscvValue::write_to_register::<Arg0 / Sbdata>: highest slot first, slot 0 last
RECURSIVE WriteSlots(_, _, _, _)
WriteSlots(m, r0, slots, i) ==
    IF i < 0 THEN m
    ELSE WriteSlots(write_dm_register_untyped(m, LargeSlot(r0, i), slots[i + 1]),
                    r0, slots, i - 1)

write_large_dtm_register(m, width, r0, slots) ==
    WriteSlots(m, r0, slots, Len(slots) - 1)

\* a write that does not remember a NotSupported outcome
abstract_cmd_register_write_unrecorded(m, regno, width, slots) ==
    IF ~IsOk(m) THEN m
    ELSE IF ~check_abstract_cmd_register_support(m.st, regno, WRITE)
    THEN Fail(m, NotSupported)
    ELSE execute_abstract_command(
             write_large_dtm_register(m, width, DATA0, slots),
             AccessRegisterCommand(0, width, FALSE, TRUE, TRUE, regno))

abstract_cmd_register_write(m, regno, width, slots) ==
    LET Executed(m2) ==
            IF m2.err = NotSupported
            THEN [m2 EXCEPT !.st = set_abstract_cmd_register_unsupported(m2.st, regno, WRITE)]
            ELSE m2
    IN  IF ~IsOk(m) THEN m
        ELSE IF ~check_abstract_cmd_register_support(m.st, regno, WRITE)
        THEN Fail(m, NotSupported)
        ELSE Executed(execute_abstract_command(
                          write_large_dtm_register(m, width, DATA0, slots),
                          AccessRegisterCommand(0, width, FALSE, TRUE, TRUE, regno)))

\* a wide read that reads slot 0 first and the highest slot last
RECURSIVE ReadSlots_lowfirst(_, _, _)
ReadSlots_lowfirst(m, r0, i) ==
    LET Slot(x) == IF IsOk(x) THEN [x EXCEPT !.wide = x.wide \o <<x.ret>>] ELSE x
    IN  IF i < 0 THEN m
        ELSE ReadSlots_lowfirst(
                 Slot(read_dm_register_untyped(m, LargeSlot(r0, Len(m.wide)))), r0, i - 1)

\* RiscvValue::read_from_register: highest slot first, slot 0 last; the value
\* is left in wide (slot 0 first) and, for widths up to 32 bits, in ret
RECURSIVE ReadSlots(_, _, _)
ReadSlots(m, r0, i) ==
    LET Slot(x) == IF IsOk(x) THEN [x EXCEPT !.wide = <<x.ret>> \o x.wide] ELSE x
    IN  IF i < 0 THEN m
        ELSE ReadSlots(Slot(read_dm_register_untyped(m, LargeSlot(r0, i))), r0, i - 1)

read_large_dtm_register(m, width, r0) ==
    LET NoSlots == IF IsOk(m) THEN [m EXCEPT !.wide = <<>>] ELSE m
        Narrow(x) == IF IsOk(x) /\ width \notin {A64, A128}
                     THEN [x EXCEPT !.ret = from_register_value(width, x.ret),
                                    !.wide = <<from_register_value(width, x.ret)>>]
                     ELSE x
    IN  Narrow(ReadSlots(NoSlots, r0, CASE width = A64 -> 1 [] width = A128 -> 3 [] OTHER -> 0))

schedule_read_large_dtm_register(m, width, r0) ==
    CASE width = A64 ->
           schedule_read_dm_register_untyped(
               schedule_read_dm_register_untyped(m, LargeSlot(r0, 1)), LargeSlot(r0, 0))
      [] width = A128 ->
           schedule_read_dm_register_untyped(
               schedule_read_dm_register_untyped(
                   schedule_read_dm_register_untyped(
                       schedule_read_dm_register_untyped(m, LargeSlot(r0, 3)),
                       LargeSlot(r0, 2)),
                   LargeSlot(r0, 1)),
               LargeSlot(r0, 0))
      [] OTHER -> schedule_read_dm_register_untyped(m, LargeSlot(r0, 0))

schedule_write_large_dtm_register(m, width, r0, slots) ==
    CASE width = A64 ->
           schedule_write_dm_register_untyped(
               schedule_write_dm_register_untyped(m, LargeSlot(r0, 1), slots[2]),
               LargeSlot(r0, 0), slots[1])
      [] width = A128 ->
           schedule_write_dm_register_untyped(
               schedule_write_dm_register_untyped(
                   schedule_write_dm_register_untyped(
                       schedule_write_dm_register_untyped(m, LargeSlot(r0, 3), slots[4]),
                       LargeSlot(r0, 2), slots[3]),
                   LargeSlot(r0, 1), slots[2]),
               LargeSlot(r0, 0), slots[1])
      [] OTHER -> schedule_write_dm_register_untyped(m, LargeSlot(r0, 0), slots[1])

SystemBusAccess == Err("SystemBusAccess", "", 0)

Unimplemented == Err("panic", "unimplemented", 0)

\* data[..data_len - 1] of an empty buffer: the subtraction panics where the
\* build checks overflow; where not it wraps and the slice is out of range
EmptySlicePanic(m) ==
    IF m.h.overflow_checks
    THEN Err("panic", "attempt to subtract with overflow", 0)
    ELSE Err("panic", "range end index out of range for slice", 0)

(***************************************************************************)
(* Memory access engines: system bus                                       *)
(***************************************************************************)
perform_memory_read_sysbus_unchecked(m, width, address) ==
    LET Data(x) == SetRet(x, x.wide[1])
    IN  Data(
          read_large_dtm_register(
            write_dm_register_untyped(
              write_dm_register_untyped(m, SBCS,
                  SbcsWord(0, TRUE, width, FALSE, FALSE, 0, 0)),
              SBADDRESS0, address),
            width, SBDATA0))

perform_memory_read_sysbus(m, width, address) ==
    LET Checked(x) == IF IsOk(x) /\ SbcsSberror(x.ret) # 0
                      THEN Fail(x, SystemBusAccess)
                      ELSE SetRet(x, x.wide[1])
    IN  Checked(
          read_dm_register_untyped(
            read_large_dtm_register(
              write_dm_register_untyped(
                write_dm_register_untyped(m, SBCS,
                    SbcsWord(0, TRUE, width, FALSE, FALSE, 0, 0)),
                SBADDRESS0, address),
              width, SBDATA0),
            SBCS))

\* the loop scheduling the reads of all but the last value; their indexes go to loc
RECURSIVE ScheduleSbReads(_, _, _)
ScheduleSbReads(m, width, k) ==
    LET Scheduled(x) == IF IsOk(x) THEN [x EXCEPT !.loc = Append(x.loc, x.idx)] ELSE x
    IN  IF k = 0 \/ ~IsOk(m) THEN m
        ELSE ScheduleSbReads(Scheduled(schedule_read_large_dtm_register(m, width, SBDATA0)),
                             width, k - 1)

\* a read that takes each value from the result of the request, not of its answer
perform_memory_read_multiple_sysbus_requests(m, width, address, data_len) ==
    LET AllButLast(x) ==
            IF data_len = 0
            THEN Fail(x, EmptySlicePanic(x))
            ELSE ScheduleSbReads([x EXCEPT !.loc = <<>>], width, data_len - 1)
        Scheduled(x) == IF IsOk(x) THEN [x EXCEPT !.loc = Append(x.loc, x.idx)] ELSE x
        Results(x) ==
            IF IsOk(x)
            THEN [x EXCEPT !.out = [i \in 1..data_len |->
                                      from_register_value(width, x.res[x.loc[i] - 1])]]
            ELSE x
        Checked(x) == IF IsOk(x) /\ SbcsSberror(x.res[x.idx]) # 0
                      THEN Fail(x, SystemBusAccess)
                      ELSE x
    IN  Checked(Results(execute(
          schedule_read_dm_register_untyped(
            Scheduled(schedule_read_large_dtm_register(
              schedule_write_dm_register_untyped(
                AllButLast(
                  schedule_write_dm_register_untyped(
                    schedule_write_dm_register_untyped(m, SBCS,
                        SbcsWord(0, TRUE, width, TRUE, TRUE, 0, 0)),
                    SBADDRESS0, address)),
                SBCS, SbcsWord(0, TRUE, width, FALSE, TRUE, 0, 0)),
              width, SBDATA0)),
            SBCS))))

perform_memory_read_multiple_sysbus(m, width, address, data_len) ==
    LET \* read_results, the indexes of the scheduled reads, is kept in loc
        AllButLast(x) ==
            IF data_len = 0
            THEN Fail(x, EmptySlicePanic(x))
            ELSE ScheduleSbReads([x EXCEPT !.loc = <<>>], width, data_len - 1)
        Scheduled(x) == IF IsOk(x) THEN [x EXCEPT !.loc = Append(x.loc, x.idx)] ELSE x
        Results(x) ==
            IF IsOk(x)
            THEN [x EXCEPT !.out = [i \in 1..data_len |->
                                      from_register_value(width, x.res[x.loc[i]])]]
            ELSE x
        \* sbcs_result is the index of the last operation scheduled
        Checked(x) == IF IsOk(x) /\ SbcsSberror(x.res[x.idx]) # 0
                      THEN Fail(x, SystemBusAccess)
                      ELSE x
    IN  Checked(Results(execute(
          schedule_read_dm_register_untyped(
            Scheduled(schedule_read_large_dtm_register(
              schedule_write_dm_register_untyped(
                AllButLast(
                  schedule_write_dm_register_untyped(
                    schedule_write_dm_register_untyped(m, SBCS,
                        SbcsWord(0, TRUE, width, TRUE, TRUE, 0, 0)),
                    SBADDRESS0, address)),
                SBCS, SbcsWord(0, TRUE, width, FALSE, TRUE, 0, 0)),
              width, SBDATA0)),
            SBCS))))

RECURSIVE ScheduleSbWrites(_, _, _, _)
ScheduleSbWrites(m, width, data, i) ==
    IF i > Len(data) THEN m
    ELSE ScheduleSbWrites(schedule_write_large_dtm_register(m, width, SBDATA0, <<data[i]>>),
                          width, data, i + 1)

\* a write that leaves sbautoincrement clear: every value goes to `address`
perform_memory_write_sysbus_fixed(m, width, address, data) ==
    LET Checked(x) == IF IsOk(x) /\ SbcsSberror(x.res[x.idx]) # 0
                      THEN Fail(x, SystemBusAccess)
                      ELSE x
    IN  Checked(execute(
          schedule_read_dm_register_untyped(
            ScheduleSbWrites(
              schedule_write_dm_register_untyped(
                schedule_write_dm_register_untyped(m, SBCS,
                    SbcsWord(0, FALSE, width, FALSE, FALSE, 0, 0)),
                SBADDRESS0, address),
              width, data, 1),
            SBCS)))

perform_memory_write_sysbus(m, width, address, data) ==
    LET \* ok_index is the index of the last operation scheduled
        Checked(x) == IF IsOk(x) /\ SbcsSberror(x.res[x.idx]) # 0
                      THEN Fail(x, SystemBusAccess)
                      ELSE x
    IN  Checked(execute(
          schedule_read_dm_register_untyped(
            ScheduleSbWrites(
              schedule_write_dm_register_untyped(
                schedule_write_dm_register_untyped(m, SBCS,
                    SbcsWord(0, FALSE, width, TRUE, FALSE, 0, 0)),
                SBADDRESS0, address),
              width, data, 1),
            SBCS)))

(***************************************************************************)
(* Memory access engines: program buffer.  The locals of an engine (s0,    *)
(* s1, the value read) are kept in loc, in the order they are read.        *)
(***************************************************************************)
\* a register value just read becomes the next local
Saved(m) == IF IsOk(m) THEN [m EXCEPT !.loc = Append(m.loc, m.ret)] ELSE m

\* the engine starts without locals
Fresh(m) == IF IsOk(m) THEN [m EXCEPT !.loc = <<>>] ELSE m

\* write the saved s0 (the first local) back
RestoreS0(m) == abstract_cmd_register_write(m, S0, A32, <<m.loc[1]>>)

\* write the saved s1 (the second local) back
RestoreS1(m) == abstract_cmd_register_write(m, S1, A32, <<m.loc[2]>>)

\* the abstractcs check after a directly posted command
CheckCmderr(m) ==
    LET Status(m1) == IF IsOk(m1) /\ AbstractcsCmderr(m1.ret) # 0
                      THEN Fail(m1, AbstractCommandErrorKind(AbstractcsCmderr(m1.ret)))
                      ELSE m1
    IN  Status(read_dm_register_untyped(m, ABSTRACTCS))

perform_memory_read_progbuf(m, width, address) ==
    LET \* the second local is the value read
        Value(x) == SetRet(x, from_register_value(width, x.loc[2]))
    \* from the innermost call outwards: save s0; set up the program; write the
    \* address to data0; post "write s0, postexec"; check cmderr; read the value
    \* from s0; restore s0
    IN  Value(
          RestoreS0(
            Saved(abstract_cmd_register_read(
              CheckCmderr(
                write_dm_register_untyped(
                  write_dm_register_untyped(
                    setup_program_buffer(
                      Saved(abstract_cmd_register_read(Fresh(m), S0)),
                      <<lw(0, 8, width, 8)>>),
                    DATA0, address),
                  COMMAND, AccessRegisterCommand(0, A32, TRUE, TRUE, TRUE, S0))),
              S0))))

\* the loop over all but the last word: post "read s1, postexec", read data0
RECURSIVE ReadWordsProgbuf_early(_, _, _)
ReadWordsProgbuf_early(m, width, k) ==
    LET Word(x) == IF IsOk(x)
                   THEN [x EXCEPT !.out = Append(x.out, from_register_value(width, x.ret))]
                   ELSE x
    IN  IF k = 0 \/ ~IsOk(m) THEN m
        ELSE ReadWordsProgbuf_early(
                 write_dm_register_untyped(
                     Word(read_dm_register_untyped(m, DATA0)),
                     COMMAND, AccessRegisterCommand(0, A32, TRUE, TRUE, FALSE, S1)),
                 width, k - 1)

RECURSIVE ReadWordsProgbuf(_, _, _)
ReadWordsProgbuf(m, width, k) ==
    LET Word(x) == IF IsOk(x)
                   THEN [x EXCEPT !.out = Append(x.out, from_register_value(width, x.ret))]
                   ELSE x
    IN  IF k = 0 \/ ~IsOk(m) THEN m
        ELSE ReadWordsProgbuf(
                 Word(read_dm_register_untyped(
                     write_dm_register_untyped(m, COMMAND,
                         AccessRegisterCommand(0, A32, TRUE, TRUE, FALSE, S1)),
                     DATA0)),
                 width, k - 1)

perform_memory_read_multiple_progbuf_everyword(m, width, address, data_len) ==
    LET AllButLast(x) ==
            IF data_len = 0
            THEN Fail(x, EmptySlicePanic(x))
            ELSE ReadWordsProgbuf(x, width, data_len)
        Last(x) == IF IsOk(x)
                   THEN [x EXCEPT !.out = Append(x.out, from_register_value(width, x.ret))]
                   ELSE x
    IN  RestoreS1(
          RestoreS0(
            CheckCmderr(
              Last(abstract_cmd_register_read(
                AllButLast(
                  write_dm_register_untyped(
                    write_dm_register_untyped(
                      setup_program_buffer(
                        Saved(abstract_cmd_register_read(
                          Saved(abstract_cmd_register_read(Fresh(m), S0)),
                          S1)),
                        <<lw(0, 8, width, 9), addi(8, 8, byte_width(width))>>),
                      DATA0, address),
                    COMMAND, AccessRegisterCommand(0, A32, TRUE, TRUE, TRUE, S0))),
                S1)))))

perform_memory_read_multiple_progbuf(m, width, address, data_len) ==
    LET AllButLast(x) ==
            IF data_len = 0
            THEN Fail(x, EmptySlicePanic(x))
            ELSE ReadWordsProgbuf(x, width, data_len - 1)
        Last(x) == IF IsOk(x)
                   THEN [x EXCEPT !.out = Append(x.out, from_register_value(width, x.ret))]
                   ELSE x
    \* from the innermost call outwards: save s0 and s1; set up the program;
    \* write the address to data0; post "write s0, postexec"; all words but the
    \* last; the last word from s1; check cmderr; restore s0 and s1
    IN  RestoreS1(
          RestoreS0(
            CheckCmderr(
              Last(abstract_cmd_register_read(
                AllButLast(
                  write_dm_register_untyped(
                    write_dm_register_untyped(
                      setup_program_buffer(
                        Saved(abstract_cmd_register_read(
                          Saved(abstract_cmd_register_read(Fresh(m), S0)),
                          S1)),
                        <<lw(0, 8, width, 9), addi(8, 8, byte_width(width))>>),
                      DATA0, address),
                    COMMAND, AccessRegisterCommand(0, A32, TRUE, TRUE, TRUE, S0))),
                S1)))))

perform_memory_write_progbuf_s1first(m, width, address, data) ==
    RestoreS0(
      RestoreS1(
        CheckCmderr(
          write_dm_register_untyped(
            write_dm_register_untyped(
              abstract_cmd_register_write(
                setup_program_buffer(
                  Saved(abstract_cmd_register_read(
                    Saved(abstract_cmd_register_read(Fresh(m), S0)),
                    S1)),
                  <<sw(0, 8, width, 9)>>),
                S0, A32, <<address>>),
              DATA0, data),
            COMMAND, AccessRegisterCommand(0, A32, TRUE, TRUE, TRUE, S1)))))

perform_memory_write_progbuf(m, width, address, data) ==
    \* from the innermost call outwards: save s0 and s1; set up the program;
    \* write the address to s0; write the value to data0; post "write s1,
    \* postexec"; check cmderr; restore s0 and s1
    RestoreS1(
      RestoreS0(
        CheckCmderr(
          write_dm_register_untyped(
            write_dm_register_untyped(
              abstract_cmd_register_write(
                setup_program_buffer(
                  Saved(abstract_cmd_register_read(
                    Saved(abstract_cmd_register_read(Fresh(m), S0)),
                    S1)),
                  <<sw(0, 8, width, 9)>>),
                S0, A32, <<address>>),
              DATA0, data),
            COMMAND, AccessRegisterCommand(0, A32, TRUE, TRUE, TRUE, S1)))))

\* the loop over the values: write data0, post "write s1, postexec"
RECURSIVE WriteWordsProgbuf(_, _, _)
WriteWordsProgbuf(m, data, i) ==
    IF i > Len(data) \/ ~IsOk(m) THEN m
    ELSE WriteWordsProgbuf(
             write_dm_register_untyped(
                 write_dm_register_untyped(m, DATA0, data[i]),
                 COMMAND, AccessRegisterCommand(0, A32, TRUE, TRUE, TRUE, S1)),
             data, i + 1)

perform_memory_write_multiple_progbuf(m, width, address, data) ==
    \* from the innermost call outwards: save s0 and s1; set up the program;
    \* write the address to s0; the loop over the values; check cmderr; restore
    \* s0 and s1
    RestoreS1(
      RestoreS0(
        CheckCmderr(
          WriteWordsProgbuf(
            abstract_cmd_register_write(
              setup_program_buffer(
                Saved(abstract_cmd_register_read(
                  Saved(abstract_cmd_register_read(Fresh(m), S0)),
                  S1)),
                <<sw(0, 8, width, 9), addi(8, 8, byte_width(width))>>),
              S0, A32, <<address>>),
            data, 1))))

(***************************************************************************)
(* CSR access through the program buffer                                   *)
(***************************************************************************)
read_csr_progbuf(m, address) ==
    LET \* the second local is reg_value
        Value(x) == SetRet(x, x.loc[2])
    \* from the innermost call outwards: save s0; set up the program; run it;
    \* read the value from s0; restore s0
    IN  Value(
          RestoreS0(
            Saved(abstract_cmd_register_read(
              execute_abstract_command(
                setup_program_buffer(
                  Saved(abstract_cmd_register_read(Fresh(m), S0)),
                  <<csrr(8, address)>>),
                AccessRegisterCommand(0, 0, TRUE, FALSE, FALSE, 0)),
              S0))))

\* a CSR write that leaves s0 holding the value it wrote
write_csr_progbuf_norestore(m, address, value) ==
    execute_abstract_command(
      setup_program_buffer(
        abstract_cmd_register_write(
          Saved(abstract_cmd_register_read(Fresh(m), S0)),
          S0, A32, <<value>>),
        <<csrw(address, 8)>>),
      AccessRegisterCommand(0, 0, TRUE, FALSE, FALSE, 0))

write_csr_progbuf(m, address, value) ==
    \* from the innermost call outwards: save s0; write the value to s0; set up
    \* the program; run it; restore s0
    RestoreS0(
      execute_abstract_command(
        setup_program_buffer(
          abstract_cmd_register_write(
            Saved(abstract_cmd_register_read(Fresh(m), S0)),
            S0, A32, <<value>>),
          <<csrw(address, 8)>>),
        AccessRegisterCommand(0, 0, TRUE, FALSE, FALSE, 0)))

(***************************************************************************)
(* Width-keyed dispatch                                                    *)
(***************************************************************************)
\* the engine chosen for the access method found at `key`
Lookup(m, key) == SetSt(m, memory_access_insert(m.st, key))

\* a read_word that runs the program buffer engine for AbstractCommand
read_word_fallback(m, width, address) ==
    perform_memory_read_progbuf(Lookup(m, width), width, address)

read_word(m, width, address) ==
    LET method == memory_access_method(m.st, width)
        m1 == Lookup(m, width)
    IN  CASE method = "ProgramBuffer" -> perform_memory_read_progbuf(m1, width, address)
          [] method = "SystemBus" -> perform_memory_read_sysbus(m1, width, address)
          [] OTHER -> Fail(m1, Unimplemented)

read_multiple(m, width, address, data_len) ==
    LET method == memory_access_method(m.st, A32)
        m1 == Lookup(m, A32)
    IN  CASE method = "ProgramBuffer" ->
               perform_memory_read_multiple_progbuf(m1, width, address, data_len)
          [] method = "SystemBus" ->
               perform_memory_read_multiple_sysbus(m1, width, address, data_len)
          [] OTHER -> Fail(m1, Unimplemented)

\* a write that runs the read engine: Ok, and nothing stored
write_word_reads(m, width, address, data) == read_word(m, width, address)

write_word(m, width, address, data) ==
    LET method == memory_access_method(m.st, width)
        m1 == Lookup(m, width)
    IN  CASE method = "ProgramBuffer" -> perform_memory_write_progbuf(m1, width, address, data)
          [] method = "SystemBus" -> perform_memory_write_sysbus(m1, width, address, <<data>>)
          [] OTHER -> Fail(m1, Unimplemented)

write_multiple(m, width, address, data) ==
    LET method == memory_access_method(m.st, width)
        m1 == Lookup(m, width)
    IN  CASE method = "SystemBus" -> perform_memory_write_sysbus(m1, width, address, data)
          [] method = "ProgramBuffer" ->
               perform_memory_write_multiple_progbuf(m1, width, address, data)
          [] OTHER -> Fail(m1, Unimplemented)

(***************************************************************************)
(* MemoryInterface: the public entry points                                *)
(***************************************************************************)
\* a u64 address: [upper |-> bits 63..32, word |-> bits 31..0]
Addr64(upper, word) == [upper |-> upper, word |-> word]

\* memory::valid_32_address
valid_32_address(m, address) ==
    IF address.upper # 0 THEN Fail(m, Err("Other", "address does not fit in 32 bits", 0))
    ELSE m

read_word_32(m, address) == read_word(valid_32_address(m, address), A32, address.word)

\* address + k on u32: a panic where the build checks overflow, wrapping where not
Add32(m, address, k) ==
    IF IsOk(m) /\ m.h.overflow_checks /\ address[1] = Half - 1 /\ address[2] + k >= Half
    THEN Fail(m, Err("panic", "attempt to add with overflow", 0))
    ELSE m

\* the words read are appended to out, the low word first
read_word_64(m, address) ==
    LET Low(x) == IF IsOk(x) THEN [x EXCEPT !.out = Append(x.out, x.ret)] ELSE x
        High(x) == IF IsOk(x) THEN [x EXCEPT !.out = Append(x.out, x.ret)] ELSE x
    IN  High(read_word(
              Add32(Low(read_word(valid_32_address(m, address), A32, address.word)),
                    address.word, 4),
              A32, AddWW(address.word, W(4))))

RECURSIVE ReadWords64(_, _, _, _)
ReadWords64(m, address, data_len, i) ==
    IF i >= data_len \/ ~IsOk(m) THEN m
    ELSE ReadWords64(read_word_64(Add32(m, address, 8 * i),
                                  Addr64(0, AddWW(address, W(8 * i)))),
                     address, data_len, i + 1)

\* a read_64 that takes the low 32 bits of whatever address it is given
read_64_unchecked(m, address, data_len) == ReadWords64(m, address.word, data_len, 0)

read_64(m, address, data_len) ==
    ReadWords64(valid_32_address(m, address), address.word, data_len, 0)

read_word_8(m, address) == read_word(valid_32_address(m, address), A8, address.word)

read_32(m, address, data_len) ==
    read_multiple(valid_32_address(m, address), A32, address.word, data_len)

read_8(m, address, data_len) ==
    read_multiple(valid_32_address(m, address), A8, address.word, data_len)

write_word_32(m, address, data) ==
    write_word(valid_32_address(m, address), A32, address.word, data)

\* a 64-bit write that puts the high word first
write_word_64_highfirst(m, address, data) ==
    write_word(Add32(write_word(valid_32_address(m, address), A32, address.word, data[2]),
                     address.word, 4),
               A32, AddWW(address.word, W(4)), data[1])

\* data: <<low_word, high_word>>
write_word_64(m, address, data) ==
    write_word(Add32(write_word(valid_32_address(m, address), A32, address.word, data[1]),
                     address.word, 4),
               A32, AddWW(address.word, W(4)), data[2])

RECURSIVE WriteWords64(_, _, _, _)
WriteWords64(m, address, data, i) ==
    IF i >= Len(data) \/ ~IsOk(m) THEN m
    ELSE WriteWords64(write_word_64(Add32(m, address, 8 * i),
                                    Addr64(0, AddWW(address, W(8 * i))), data[i + 1]),
                      address, data, i + 1)

write_64(m, address, data) ==
    WriteWords64(valid_32_address(m, address), address.word, data, 0)

write_word_8(m, address, data) ==
    write_word(valid_32_address(m, address), A8, address.word, data)

write_32(m, address, data) ==
    write_multiple(valid_32_address(m, address), A32, address.word, data)

write_8(m, address, data) ==
    write_multiple(valid_32_address(m, address), A8, address.word, data)

(***************************************************************************)
(* Bounds and inputs                                                       *)
(***************************************************************************)
\* the turns the busy polling loop can take before the timeout has elapsed
MaxTurns == 3

\* longest buffer handed to read_32 / read_8 / write_32 / write_8
MaxLen == 2

\* the longest buffer of the runs on the multi-word loops
MaxWords == 4

\* a DMI operation may fail: the failAt-th of a call, for failAt in 1..MaxFailAt
MaxFailAt == 2

\* the busy polls after which the abstract command timeout may have elapsed
MaxPolls == 1

\* widest hart selector of the hardware attached to
MaxHartsellen == 2

\* the CSR used by the CSR operations (mscratch)
CsrA == 3 * 256 + 64

Csrs == {CsrA}

V1 == <<41394, 50132>>

Words == {V1}

B1 == <<0, 145>>

Bytes == {B1}

\* a mapped word, the first unmapped address, an address above 32 bits
Addrs == {Addr64(0, RamBase), Addr64(0, AddWW(RamBase, <<0, MemSize>>)), Addr64(1, RamBase)}

\* for the 64-bit accesses: both words mapped, the high word unmapped, above 32 bits
Addrs64 == {Addr64(0, RamBase), Addr64(0, AddWW(RamBase, <<0, MemSize - 4>>)),
            Addr64(1, RamBase)}

SeqsUpTo(S, n) == UNION {[1..k -> S] : k \in 0..n}

Regnos == {S0, S1, CsrA}

\* the programs handed to setup_program_buffer directly
\* of one and two words (the engines' store, load, and load and step), one that
\* fills the program buffer, one that is too long
Progs == {<<sw(0, 8, A32, 9)>>, <<lw(0, 8, A32, 9)>>, <<lw(0, 8, A32, 9), addi(8, 8, 4)>>,
          <<lw(0, 8, A32, 9), addi(8, 8, 4), sw(0, 8, A32, 9)>>,
          <<lw(0, 8, A32, 9), addi(8, 8, 4), sw(0, 8, A32, 9), addi(8, 8, 4)>>}

\* the 64-bit and 128-bit values handed to the wide register accesses, slot 0 first
V2 == <<4660, 22136>>

V3 == <<3, 51>>

V4 == <<4, 68>>

Wides == [w \in {A64, A128} |->
            IF w = A64 THEN {<<V1, V2>>, <<V2, V1>>} ELSE {<<V1, V2, V3, V4>>}]

\* the wide registers: data0..3 (Arg0) and sbdata0..3 (Sbdata)
LargeRegisters == {DATA0, SBDATA0}

\* the hardware the interface is attached to
HwBase ==
    [version |-> 2, impebreak |-> FALSE, confstrptrvalid |-> FALSE,
     confstrptr |-> <<W(17), W(34), W(51), W(68)>>,
     hartsellen |-> 1, nharts |-> 1, progbufsize |-> 3, datacount |-> 2,
     nscratch |-> 1, autoexec |-> TRUE, sbversion |-> 1, sbaccess |-> {A8, A32},
     noRead |-> {}, noWrite |-> {}, latency |-> 0, halted |-> TRUE, linkfail |-> FALSE,
     overflow_checks |-> TRUE, faulty |-> {}, fault |-> 0]

\* no system bus, and no abstract access to CSRs
HwProgbuf ==
    [HwBase EXCEPT !.sbaccess = {}, !.sbversion = 0, !.noRead = {CsrA}, !.noWrite = {CsrA}]

\* the same behind a probe link that can fail
HwFlaky == [HwProgbuf EXCEPT !.linkfail = TRUE]

\* system bus access for bytes only
HwByteBus == [HwBase EXCEPT !.sbaccess = {A8}]

\* a program buffer followed by an implicit ebreak
HwImplicit == [HwProgbuf EXCEPT !.impebreak = TRUE]

\* abstract commands that take three DMI operations, and that never finish
HwSlow == [HwProgbuf EXCEPT !.latency = 3]

HwStuck == [HwProgbuf EXCEPT !.latency = -1]

TimeoutHw == {HwProgbuf, HwSlow, HwStuck}

\* a hart that is not halted: abstract commands fail with HaltResume
HwRunning == [HwProgbuf EXCEPT !.halted = FALSE]

CommandHw == {HwProgbuf, HwSlow, HwRunning}

OpHw == {HwProgbuf, HwBase, HwFlaky}

DispatchHw == {HwByteBus}

\* what a Debug Module can report at attach
Versions == {0, 1, 2, 3, 15}

HartShapes ==
    {sh \in (0..MaxHartsellen) \X (1..(2 ^ MaxHartsellen)) : sh[2] <= 2 ^ sh[1]}

ProgbufSizes == {0, 3, 16, 17, 31}

Datacounts == {0, 1, 12, 13, 15}

\* sbcs as a Debug Module can report it: <<sbversion, the widths of sbaccess8..128>>
SbShapes == {<<1, {}>>, <<1, {A8, A32}>>, <<0, {A8, A32}>>, <<1, {A16, A64, A128}>>}

AttachHw ==
    {[HwBase EXCEPT !.version = v, !.hartsellen = sh[1], !.nharts = sh[2],
                    !.progbufsize = ps, !.datacount = dc, !.confstrptrvalid = cv,
                    !.sbversion = sb[1], !.sbaccess = sb[2], !.linkfail = lf] :
        v \in Versions, sh \in HartShapes, ps \in ProgbufSizes, dc \in Datacounts,
        cv \in BOOLEAN, sb \in SbShapes, lf \in BOOLEAN}

\* the target when the probe attaches
DmReset ==
    [hartsel |-> 0, dmactive |-> FALSE, cmderr |-> 0, busy |-> 0,
     data |-> <<W0, W0, W0, W0>>,
     progbuf |-> [i \in 1..16 |-> W0],
     abstractauto |-> W0,
     sbaccess |-> A32, sbreadonaddr |-> FALSE, sbautoincrement |-> FALSE,
     sbreadondata |-> FALSE, sberror |-> 0,
     sbaddress0 |-> W0, sbdata |-> <<W0, W0, W0, W0>>,
     x |-> [r \in {8, 9} |-> <<20560, r>>],
     csr |-> [c \in Csrs |-> <<0, c>>],
     mem |-> [o \in MemOffsets |-> 129 + (o % MemSize)],
     acc |-> <<>>]

Machine(h, s, d, failAt, polls) ==
    [h |-> h, st |-> s, dm |-> d,
     tr |-> <<>>, q |-> <<>>, res |-> <<>>, pending |-> W0, idx |-> 0,
     err |-> Ok, ret |-> W0, wide |-> <<>>, loc |-> <<>>, out |-> <<>>,
     n |-> 0, failAt |-> failAt, polls |-> polls]

(***************************************************************************)
(* The caller.  last is the call that has just returned (its result, the   *)
(* DMI operations it issued, the target accesses it caused, x8/x9 before   *)
(* it) or "idle" between calls; after is the successful call before it     *)
(* when that is one the caller compares with, notsup the registers whose   *)
(* abstract read had returned NotSupported before the call.                *)
(***************************************************************************)
Idle(after, notsup) ==
    [op |-> "idle", arg |-> <<>>, err |-> Ok, ret |-> W0, out |-> <<>>,
     tr |-> <<>>, acc |-> <<>>, x |-> [r \in {8, 9} |-> W0],
     after |-> after, notsup |-> notsup]

Remembered == {"write_word_32", "write_word_64", "setup_program_buffer"}

Memo(l) == IF l.err = Ok /\ l.op \in Remembered THEN <<l.op, l.arg>> ELSE <<>>

\* RiscvCommunicationInterface::new: attach to the hardware h
Attached(h) == enter_debug_mode(Machine(h, NewState, DmReset, 0, 1))

InitOn(HwSet) ==
    /\ hw \in HwSet
    /\ \E m \in {Attached(hw)} : st = m.st /\ dm = m.dm
    /\ last = Idle(<<>>, {})

Init == InitOn(OpHw)

InitDispatch == InitOn(DispatchHw)

\* access-method maps of the type HashMap<RiscvBusAccess, MemoryAccessMethod>,
\* with the entries of A8 and A32 drawn from all three methods.  No operation of
\* the interface stores AbstractCommand (attach stores SystemBus, a lookup
\* ProgramBuffer): the maps are the inputs the dispatch is applied to.
AccessMaps ==
    {[w \in Widths |-> IF w = A8 THEN a ELSE IF w = A32 THEN b ELSE "Absent"] :
        a \in {"SystemBus", "AbstractCommand"},
        b \in {"Absent", "SystemBus", "ProgramBuffer", "AbstractCommand"}}

InitAbstract ==
    /\ hw = HwBase
    /\ \E m \in {Attached(hw)}, info \in AccessMaps :
          /\ st = [m.st EXCEPT !.memory_access_info = info]
          /\ dm = m.dm
    /\ last = Idle(<<>>, {})

\* before RiscvCommunicationInterface::new has attached
InitAttach ==
    /\ hw \in AttachHw
    /\ st = NewState
    /\ dm = DmReset
    /\ last = Idle(<<>>, {})

\* the call `op(arg)` ran to its end m
Return(op, arg, m) ==
    /\ st' = m.st
    /\ dm' = [m.dm EXCEPT !.acc = <<>>]
    /\ last' = [op |-> op, arg |-> arg, err |-> m.err, ret |-> m.ret, out |-> m.out,
                tr |-> m.tr, acc |-> m.dm.acc, x |-> dm.x, after |-> last.after,
                notsup |-> last.notsup]
    /\ UNCHANGED hw

Start(failAt, polls) == Machine(hw, st, dm, failAt, polls)

Calling == last.op = "idle"

\* the DMI operation of the call that fails, 0 for none
FailAts == IF hw.linkfail THEN 0..MaxFailAt ELSE {0}

\* the caller goes on to its next call (a panic ends the process)
Continue ==
    /\ last.op \notin {"idle", "polling"}
    /\ last.err.kind # "panic"
    /\ last' = Idle(Memo(last),
                    IF last.op = "abstract_cmd_register_read" /\ last.err = NotSupported
                    THEN last.notsup \cup {last.arg[1]} ELSE last.notsup)
    /\ UNCHANGED <<hw, st, dm>>

ReadWord32 ==
    /\ Calling
    /\ \E a \in Addrs, f \in FailAts, p \in 1..MaxPolls :
          Return("read_word_32", <<a>>, read_word_32(Start(f, p), a))

WriteWord32 ==
    /\ Calling
    /\ \E a \in Addrs, v \in Words, f \in FailAts, p \in 1..MaxPolls :
          Return("write_word_32", <<a, v>>, write_word_32(Start(f, p), a, v))

ReadWord8 ==
    /\ Calling
    /\ \E a \in Addrs, f \in FailAts, p \in 1..MaxPolls :
          Return("read_word_8", <<a>>, read_word_8(Start(f, p), a))

WriteWord8 ==
    /\ Calling
    /\ \E a \in Addrs, v \in Bytes, f \in FailAts, p \in 1..MaxPolls :
          Return("write_word_8", <<a, v>>, write_word_8(Start(f, p), a, v))

Read32 ==
    /\ Calling
    /\ \E a \in Addrs, n \in 0..MaxLen, f \in FailAts, p \in 1..MaxPolls :
          Return("read_32", <<a, n>>, read_32(Start(f, p), a, n))

\* read_8 into a buffer of up to maxLen bytes
ReadBytes(maxLen) ==
    /\ Calling
    /\ \E a \in Addrs, n \in 0..maxLen, f \in FailAts, p \in 1..MaxPolls :
          Return("read_8", <<a, n>>, read_8(Start(f, p), a, n))

Read8 == ReadBytes(MaxLen)

Read8Long == ReadBytes(MaxWords)

Write32 ==
    /\ Calling
    /\ \E a \in Addrs, d \in SeqsUpTo(Words, MaxLen), f \in FailAts, p \in 1..MaxPolls :
          Return("write_32", <<a, d>>, write_32(Start(f, p), a, d))

Write8 ==
    /\ Calling
    /\ \E a \in Addrs, d \in SeqsUpTo(Bytes, MaxLen), f \in FailAts, p \in 1..MaxPolls :
          Return("write_8", <<a, d>>, write_8(Start(f, p), a, d))

ReadCsrProgbuf ==
    /\ Calling
    /\ \E c \in Csrs, f \in FailAts, p \in 1..MaxPolls :
          Return("read_csr_progbuf", <<c>>, read_csr_progbuf(Start(f, p), c))

WriteCsrProgbuf ==
    /\ Calling
    /\ \E c \in Csrs, v \in Words, f \in FailAts, p \in 1..MaxPolls :
          Return("write_csr_progbuf", <<c, v>>, write_csr_progbuf(Start(f, p), c, v))

AbstractCmdRegisterRead ==
    /\ Calling
    /\ \E r \in Regnos, f \in FailAts, p \in 1..MaxPolls :
          Return("abstract_cmd_register_read", <<r>>,
                 abstract_cmd_register_read(Start(f, p), r))

AbstractCmdRegisterWrite ==
    /\ Calling
    /\ \E r \in Regnos, v \in Words, f \in FailAts, p \in 1..MaxPolls :
          Return("abstract_cmd_register_write", <<r, v>>,
                 abstract_cmd_register_write(Start(f, p), r, A32, <<v>>))

SetupProgramBuffer ==
    /\ Calling
    /\ \E data \in Progs, f \in FailAts :
          Return("setup_program_buffer", <<data>>, setup_program_buffer(Start(f, 1), data))

\* RiscvCommunicationInterface::new runs enter_debug_mode on the fresh state
Attach ==
    /\ Calling
    /\ st = NewState
    /\ \E f \in FailAts :
          Return("attach", <<>>, enter_debug_mode(Start(f, 1)))

\* the value a wide read assembled, as the caller gets it
Assembled(m) == [m EXCEPT !.out = m.wide]

\* the results the scheduled operations delivered, as the caller gets them
Delivered(m) == [m EXCEPT !.out = m.res]

ReadLargeDtmRegister ==
    /\ Calling
    /\ \E w \in {A64, A128}, r \in LargeRegisters, f \in FailAts :
          Return("read_large_dtm_register", <<w, r>>,
                 Assembled(read_large_dtm_register(Start(f, 1), w, r)))

WriteLargeDtmRegister ==
    /\ Calling
    /\ \E w \in {A64, A128}, r \in LargeRegisters, f \in FailAts :
          \E v \in Wides[w] :
              Return("write_large_dtm_register", <<w, r, v>>,
                     write_large_dtm_register(Start(f, 1), w, r, v))

ScheduleReadLargeDtmRegister ==
    /\ Calling
    /\ \E w \in {A64, A128}, r \in LargeRegisters, f \in FailAts :
          Return("schedule_read_large_dtm_register", <<w, r>>,
                 Delivered(execute(schedule_read_large_dtm_register(Start(f, 1), w, r))))

ScheduleWriteLargeDtmRegister ==
    /\ Calling
    /\ \E w \in {A64, A128}, r \in LargeRegisters, f \in FailAts :
          \E v \in Wides[w] :
              Return("schedule_write_large_dtm_register", <<w, r, v>>,
                     execute(schedule_write_large_dtm_register(Start(f, 1), w, r, v)))

ReadWord64 ==
    /\ Calling
    /\ \E a \in Addrs64, f \in FailAts, p \in 1..MaxPolls :
          Return("read_word_64", <<a>>, read_word_64(Start(f, p), a))

WriteWord64 ==
    /\ Calling
    /\ \E a \in Addrs64, v \in Wides[A64], f \in FailAts, p \in 1..MaxPolls :
          Return("write_word_64", <<a, v>>, write_word_64(Start(f, p), a, v))

Read64 ==
    /\ Calling
    /\ \E a \in Addrs64, n \in 0..MaxLen, f \in FailAts, p \in 1..MaxPolls :
          Return("read_64", <<a, n>>, read_64(Start(f, p), a, n))

Write64 ==
    /\ Calling
    /\ \E a \in Addrs64, d \in SeqsUpTo(Wides[A64], MaxLen), f \in FailAts, p \in 1..MaxPolls :
          Return("write_64", <<a, d>>, write_64(Start(f, p), a, d))

\* execute_abstract_command(command) is in its busy polling loop, the call having
\* gone as far as m: it has taken `turns` turns, and the timeout has or has not
\* elapsed
Looping(command, m, turns, elapsed) ==
    /\ st' = m.st
    /\ dm' = m.dm
    /\ last' = [op |-> "polling", arg |-> <<command>>, err |-> Ok, ret |-> m.ret,
                out |-> <<>>, tr |-> m.tr, acc |-> <<>>, x |-> dm.x,
                after |-> last.after, notsup |-> last.notsup,
                turns |-> turns, elapsed |-> elapsed]
    /\ UNCHANGED hw

\* execute_abstract_command from its start to the write of the command register
ExecuteAbstractCommandPost ==
    /\ Calling
    /\ \E r \in Regnos, write \in BOOLEAN, f \in FailAts :
          \E m \in {PostCommand(Start(f, 1),
                                AccessRegisterCommand(0, A32, FALSE, TRUE, write, r))} :
              IF IsOk(m)
              THEN Looping(AccessRegisterCommand(0, A32, FALSE, TRUE, write, r), m, 0, FALSE)
              ELSE Return("execute_abstract_command",
                          <<AccessRegisterCommand(0, A32, FALSE, TRUE, write, r)>>, m)

\* one turn of the loop, and what follows the loop when it is left
ExecuteAbstractCommandPoll ==
    /\ last.op = "polling"
    /\ last.elapsed \/ last.turns < MaxTurns
    /\ \E m \in {PollTurn([Start(0, 1) EXCEPT !.tr = last.tr, !.n = Len(last.tr)],
                           last.elapsed)} :
          IF Polling(m)
          THEN Looping(last.arg[1], m, last.turns + 1, last.elapsed)
          ELSE Return("execute_abstract_command", last.arg, FinishCommand(m))

\* RISCV_TIMEOUT has passed since the loop was entered
Elapse ==
    /\ last.op = "polling"
    /\ ~last.elapsed
    /\ last' = [last EXCEPT !.elapsed = TRUE]
    /\ UNCHANGED <<hw, st, dm>>

Next ==
    \/ ReadWord32
    \/ WriteWord32
    \/ Read32
    \/ Write32
    \/ ReadCsrProgbuf
    \/ WriteCsrProgbuf
    \/ AbstractCmdRegisterRead
    \/ Continue

Spec == Init /\ [][Next]_vars

NextSetup ==
    \/ SetupProgramBuffer
    \/ WriteWord32
    \/ Read32
    \/ Continue

SpecSetup == Init /\ [][NextSetup]_vars

NextDispatch ==
    \/ ReadWord32
    \/ WriteWord32
    \/ ReadWord8
    \/ WriteWord8
    \/ Read32
    \/ Read8
    \/ Write32
    \/ Write8
    \/ Continue

SpecDispatch == InitDispatch /\ [][NextDispatch]_vars

NextAttach ==
    \/ Attach
    \/ Continue

SpecAttach == InitAttach /\ [][NextAttach]_vars

NextWide ==
    \/ ReadLargeDtmRegister
    \/ WriteLargeDtmRegister
    \/ ScheduleReadLargeDtmRegister
    \/ ScheduleWriteLargeDtmRegister
    \/ Continue

SpecWide == InitOn({HwBase, HwFlaky}) /\ [][NextWide]_vars

NextWord64 ==
    \/ ReadWord64
    \/ WriteWord64
    \/ WriteWord32
    \/ Continue

SpecWord64 == Init /\ [][NextWord64]_vars

NextAddress ==
    \/ ReadWord8
    \/ ReadWord32
    \/ ReadWord64
    \/ Read8
    \/ Read32
    \/ Read64
    \/ WriteWord8
    \/ WriteWord32
    \/ WriteWord64
    \/ Write8
    \/ Write32
    \/ Write64

\* one call of an entry point on the interface as attach leaves it
SpecAddress == InitOn(OpHw \cup DispatchHw) /\ [][NextAddress]_vars

\* one call of an entry point on each access-method map
SpecAbstract == InitAbstract /\ [][NextAddress]_vars

NextRegister ==
    \/ AbstractCmdRegisterRead
    \/ AbstractCmdRegisterWrite
    \/ ReadCsrProgbuf
    \/ WriteCsrProgbuf
    \/ Continue

SpecRegister == Init /\ [][NextRegister]_vars

NextTimeout ==
    \/ ExecuteAbstractCommandPost
    \/ ExecuteAbstractCommandPoll
    \/ Elapse
    \/ Continue

\* the host keeps running its loop, every DMI access returning, and time passes
SpecTimeout ==
    /\ InitOn(TimeoutHw)
    /\ [][NextTimeout]_vars
    /\ WF_vars(ExecuteAbstractCommandPoll)
    /\ WF_vars(Elapse)

ProgbufHw == {HwProgbuf, HwImplicit, HwFlaky}

SpecProgbuf == InitOn(ProgbufHw) /\ [][NextSetup]_vars


NextSysbus ==
    \/ ReadWord32
    \/ ReadWord8
    \/ WriteWord32
    \/ Continue

SpecSysbus == InitOn({HwBase, HwByteBus}) /\ [][NextSysbus]_vars

NextStore ==
    \/ WriteWord32
    \/ WriteWord8
    \/ Write32
    \/ ReadWord32
    \/ Continue

SpecStore == InitOn({HwProgbuf, HwFlaky}) /\ [][NextStore]_vars

NextLoad ==
    \/ Read8Long
    \/ Read32
    \/ ReadWord32
    \/ WriteWord32
    \/ Continue

SpecLoad == InitOn({HwProgbuf, HwFlaky}) /\ [][NextLoad]_vars

SpecCommand == InitOn(CommandHw) /\ [][NextTimeout]_vars

NextBurst ==
    \/ Read32
    \/ Read8Long
    \/ WriteWord32
    \/ Continue

SpecBurst == InitOn({HwBase}) /\ [][NextBurst]_vars

\* distinct values for the buffers of the multi-word writes
B2 == <<0, 146>>

B3 == <<0, 147>>

B4 == <<0, 148>>

ByteRuns == {<<>>, <<B1>>, <<B2, B1>>, <<B1, B2, B3, B4>>}

WordRuns == {<<V2>>, <<V1, V2>>}

\* write_8 and write_32 of buffers whose values differ
WriteRun8 ==
    /\ Calling
    /\ \E a \in Addrs, d \in ByteRuns, f \in FailAts, p \in 1..MaxPolls :
          Return("write_8", <<a, d>>, write_8(Start(f, p), a, d))

WriteRun32 ==
    /\ Calling
    /\ \E a \in Addrs, d \in WordRuns, f \in FailAts, p \in 1..MaxPolls :
          Return("write_32", <<a, d>>, write_32(Start(f, p), a, d))

\* system bus access behind a probe link that can fail
HwBusFlaky == [HwBase EXCEPT !.linkfail = TRUE]

NextBusWrite ==
    \/ WriteWord32
    \/ WriteWord8
    \/ WriteRun8
    \/ WriteRun32
    \/ Continue

SpecBusWrite == InitOn({HwBase, HwBusFlaky}) /\ [][NextBusWrite]_vars

\* abstract commands that take one DMI operation to finish
HwLag == [HwProgbuf EXCEPT !.latency = 1]

\* read_32 and write_32 with RISCV_TIMEOUT not elapsing within MaxTurns polls
Read32Unhurried ==
    /\ Calling
    /\ \E a \in Addrs, n \in 0..MaxLen :
          Return("read_32", <<a, n>>, read_32(Start(0, MaxTurns), a, n))

Write32Unhurried ==
    /\ Calling
    /\ \E a \in Addrs, d \in SeqsUpTo(Words, MaxLen) :
          Return("write_32", <<a, d>>, write_32(Start(0, MaxTurns), a, d))

NextLag ==
    \/ Read32Unhurried
    \/ Write32Unhurried
    \/ Continue

SpecLag == InitOn({HwProgbuf, HwLag}) /\ [][NextLag]_vars

\* a build without overflow checks: u32 arithmetic wraps
HwWrapping == [HwBase EXCEPT !.overflow_checks = FALSE]

\* the last word and the last double word of the address space, and a word of
\* the RAM window
AddrsTop == {Addr64(0, <<Half - 1, Half - 4>>), Addr64(0, <<Half - 1, Half - 8>>),
             Addr64(0, RamBase)}

\* the 64-bit entry points at the top of the address space
ReadWord64Top ==
    /\ Calling
    /\ \E a \in AddrsTop :
          Return("read_word_64", <<a>>, read_word_64(Start(0, 1), a))

WriteWord64Top ==
    /\ Calling
    /\ \E a \in AddrsTop, v \in Wides[A64] :
          Return("write_word_64", <<a, v>>, write_word_64(Start(0, 1), a, v))

Read64Top ==
    /\ Calling
    /\ \E a \in AddrsTop, n \in 0..MaxLen :
          Return("read_64", <<a, n>>, read_64(Start(0, 1), a, n))

Write64Top ==
    /\ Calling
    /\ \E a \in AddrsTop, d \in SeqsUpTo(Wides[A64], MaxLen) :
          Return("write_64", <<a, d>>, write_64(Start(0, 1), a, d))

NextTop ==
    \/ ReadWord64Top
    \/ WriteWord64Top
    \/ Read64Top
    \/ Write64Top
    \/ Continue

SpecTop == InitOn({HwBase, HwWrapping, HwProgbuf}) /\ [][NextTop]_vars

\* Debug Modules whose sbcs reports each of the shapes of SbShapes
MethodHw == {[HwBase EXCEPT !.sbversion = sb[1], !.sbaccess = sb[2]] : sb \in SbShapes}

\* a call of each of read_word, read_multiple, write_word and write_multiple
NextMethods ==
    \/ ReadWord32
    \/ ReadWord8
    \/ Read8
    \/ WriteWord8
    \/ Write32
    \/ Continue

SpecMethods == InitOn(MethodHw) /\ [][NextMethods]_vars

\* abstract commands that take six DMI operations: the command of a call made
\* right after a timeout is written while the one before is still running
HwLate == [HwProgbuf EXCEPT !.latency = 6]

\* a Debug Module that answers the accesses to s1 with cmderr 3, 5 or 7
FaultHw == {[HwProgbuf EXCEPT !.faulty = {S1}, !.fault = e] : e \in {3, 5, 7}}

SupportHw == {HwProgbuf, HwFlaky, HwRunning, HwStuck, HwLate} \cup FaultHw

NextSupport ==
    \/ AbstractCmdRegisterRead
    \/ AbstractCmdRegisterWrite
    \/ Continue

SpecSupport == InitOn(SupportHw) /\ [][NextSupport]_vars

\* Debug Modules of a version the interface refuses and of two harts, besides
\* the ones the operations run on
HwOld == [HwBase EXCEPT !.version = 1]

HwTwoHarts == [HwProgbuf EXCEPT !.nharts = 2]

ActiveHw == {HwBase, HwProgbuf, HwFlaky, HwLate, HwOld, HwTwoHarts}

\* RiscvCommunicationInterface::new: when enter_debug_mode fails the interface
\* is not returned, and its state is gone with it
New ==
    /\ Calling
    /\ st = NewState
    /\ \E f \in FailAts :
          \E m \in {enter_debug_mode(Start(f, 1))} :
             Return("new", <<>>, IF IsOk(m) THEN m ELSE [m EXCEPT !.st = NewState])

\* new has returned an interface
Constructed == st # NewState

NextActive ==
    \/ New
    \/ Constructed /\ AbstractCmdRegisterRead
    \/ Constructed /\ AbstractCmdRegisterWrite
    \/ Constructed /\ ReadWord32
    \/ Continue

InitActive ==
    /\ hw \in ActiveHw
    /\ st = NewState
    /\ dm = DmReset
    /\ last = Idle(<<>>, {})

SpecActive == InitActive /\ [][NextActive]_vars
(***************************************************************************)
(* Properties                                                              *)
(***************************************************************************)
CsrCalls == {"read_csr_progbuf", "write_csr_progbuf"}

MemoryCalls32 == {"read_word_32", "write_word_32", "read_32", "write_32"}

MemoryCalls8 == {"read_word_8", "write_word_8", "read_8", "write_8"}

\* the call that returned ran a program buffer engine
ProgbufCall ==
    \/ last.op \in CsrCalls
    \/ last.op \in MemoryCalls32 /\ memory_access_method(st, A32) = "ProgramBuffer"

\* the call that returned is read_word_32(a) right after an Ok write_word_32(a, v)
ReadAfterWrite32 ==
    /\ last.op = "read_word_32"
    /\ last.after # <<>>
    /\ last.after[1] = "write_word_32"
    /\ last.after[2][1] = last.arg[1]

SavedS0 == \E i \in DOMAIN last.tr : last.tr[i].op = "Read" /\ last.tr[i].addr = DATA0

\* C3: a program buffer memory or CSR operation that has saved s0 and then
\* fails with an abstract command error or ProgramBufferTooSmall has written
\* the saved values back: x8 and x9 hold what they held when it started.
ScratchRestoredOnError ==
    (/\ ProgbufCall
     /\ last.err.kind \in {"AbstractCommand", "ProgramBufferTooSmall"}
     /\ SavedS0)
    => dm.x = last.x

\* the call that returned is setup_program_buffer(p) right after an Ok
\* setup_program_buffer(p)
SetupTwice ==
    /\ last.op = "setup_program_buffer"
    /\ last.after = <<"setup_program_buffer", last.arg>>

\* C4: a setup_program_buffer(p) that directly follows a successful
\* setup_program_buffer(p) returns Ok and issues no DMI operation.
SecondSetupSilent ==
    SetupTwice => (last.err = Ok /\ last.tr = <<>>)

SecondSetupSilentSeen ==
    /\ SetupTwice
    /\ last.tr = <<>>
    /\ Len(last.arg[1]) = 2
    /\ SubSeq(dm.progbuf, 1, 3) = last.arg[1] \o <<EBREAK>>

\* the call that returned is abstract_cmd_register_read(r) for a register whose
\* abstract read had returned NotSupported before
ReadOfUnsupported ==
    /\ last.op = "abstract_cmd_register_read"
    /\ last.arg[1] \in last.notsup

\* C5: once abstract_cmd_register_read(r) has returned NotSupported, every
\* later abstract_cmd_register_read(r) returns NotSupported and issues no DMI
\* operation.
NotSupportedMemoized ==
    ReadOfUnsupported =>
        /\ last.err = [kind |-> "AbstractCommand", name |-> "NotSupported", num |-> 2]
        /\ last.tr = <<>>

NotSupportedMemoizedSeen ==
    /\ ReadOfUnsupported
    /\ last.arg[1] = CsrA
    /\ last.err.name = "NotSupported"
    /\ last.tr = <<>>

IsCommandWrite(e) == e.op = "Write" /\ e.addr = COMMAND

\* the host has read abstractcs since the command write before the i-th operation
CheckedBefore(tr, i) ==
    \E j \in 1..(i - 1) :
        /\ tr[j].op = "Read"
        /\ tr[j].addr = ABSTRACTCS
        /\ \A k \in (j + 1)..(i - 1) : ~IsCommandWrite(tr[k])

\* no operation of the call up to the i-th found a command still running
IdleUpTo(tr, i) == \A j \in 1..i : ~tr[j].busy

WidthOf(op) == IF op \in MemoryCalls8 THEN A8 ELSE A32

\* the engine that ran: the system bus engines begin with a write of sbcs, the
\* program buffer engines with the dmcontrol write of an abstract command
EngineOf(tr) == IF tr[1].addr = SBCS THEN "SystemBus" ELSE "ProgramBuffer"

\* C7: each of the eight memory entry points that returns Ok has run the engine of the access
\* method recorded for the width of the elements it transfers.
DispatchByWidth ==
    (last.op \in MemoryCalls32 \cup MemoryCalls8 /\ last.err = Ok /\ last.tr # <<>>)
    => EngineOf(last.tr) = memory_access_method(st, WidthOf(last.op))

VersionName(v) ==
    CASE v = 0 -> "NoModule"
      [] v = 1 -> "Version0_11"
      [] v = 2 -> "Version0_13"
      [] v = 15 -> "NonConforming"
      [] OTHER -> "Unknown"

\* C8: attach returns Ok only on a DM whose dmstatus reports version 2, and then
\* debug_version is Version0_13; once dmstatus has been read with another
\* version, attach fails with UnsupportedDebugModuleVersion of the decoded version.
AttachNeedsVersion0_13 ==
    last.op = "attach" =>
        /\ last.err = Ok => (hw.version = 2 /\ st.debug_version = <<"Version0_13", 2>>)
        /\ (hw.version # 2 /\ Len(last.tr) >= 2) =>
               last.err = [kind |-> "UnsupportedDebugModuleVersion",
                           name |-> VersionName(hw.version), num |-> hw.version]

AttachNeedsVersion0_13Seen ==
    /\ last.op = "attach"
    /\ hw.version = 3
    /\ last.err = [kind |-> "UnsupportedDebugModuleVersion", name |-> "Unknown", num |-> 3]
    /\ Len(last.tr) = 2

\* C9: after a successful attach progbuf_size <= 16, hartsellen <= 20 and
\* 1 <= data_register_count <= 12, whatever the DM reports.
AttachStateInRange ==
    (last.op = "attach" /\ last.err = Ok) =>
        /\ st.progbuf_size <= 16
        /\ st.hartsellen <= 20
        /\ st.data_register_count >= 1
        /\ st.data_register_count <= 12

IsDmcontrolWrite(e) == e.op = "Write" /\ e.addr = DMCONTROL

\* the dmcontrol writes of an attach: enable, all-ones hartsel, the
\* enumeration, hart 0 again
DmcontrolWrites == SelectSeq(last.tr, IsDmcontrolWrite)

Enumerated == Len(DmcontrolWrites) - 3

\* C10: a successful attach selects the harts 1, 2, ... in this order with
\* dmactive set, up to the first that does not exist or to 2^hartsellen - 1,
\* and num_harts is 1 + the number of them that exist, so that
\* 1 <= num_harts <= 2^hartsellen.
HartsEnumerated ==
    (last.op = "attach" /\ last.err = Ok) =>
        /\ \A i \in 1..Enumerated :
              /\ DmcontrolHartsel(DmcontrolWrites[i + 2].val) = i
              /\ DmcontrolDmactive(DmcontrolWrites[i + 2].val)
        /\ Enumerated = IF hw.nharts < 2 ^ st.hartsellen
                        THEN hw.nharts ELSE 2 ^ st.hartsellen - 1
        /\ st.num_harts = 1 + Cardinality({i \in 1..Enumerated : i < hw.nharts})
        /\ st.num_harts >= 1
        /\ st.num_harts <= 2 ^ st.hartsellen

HartsEnumeratedSeen ==
    /\ last.op = "attach"
    /\ last.err = Ok
    /\ hw.hartsellen = 2
    /\ hw.nharts = 2
    /\ Enumerated = 2
    /\ st.num_harts = 2


\* C11: after a successful attach, for each width W of A8..A128 the entry
\* access_method[W] is SystemBus exactly when the DM's sbcs reports sbversion = 1
\* and sbaccessW = 1; every other width has no entry, and its lookup yields
\* ProgramBuffer.
AccessMethodFromSbcs ==
    (last.op = "attach" /\ last.err = Ok) =>
        \A w \in Widths :
            /\ st.memory_access_info[w] = "SystemBus"
                   <=> (hw.sbversion = 1 /\ w \in hw.sbaccess)
            /\ ~(hw.sbversion = 1 /\ w \in hw.sbaccess) =>
                   /\ st.memory_access_info[w] = "Absent"
                   /\ memory_access_method(st, w) = "ProgramBuffer"

AccessMethodFromSbcsSeen ==
    /\ last.op = "attach"
    /\ last.err = Ok
    /\ hw.sbversion = 1
    /\ hw.sbaccess = {A8, A32}
    /\ st.memory_access_info[A8] = "SystemBus"
    /\ st.memory_access_info[A32] = "SystemBus"
    /\ memory_access_method(st, A16) = "ProgramBuffer"
    /\ st.implicit_ebreak = hw.impebreak

WideCalls ==
    {"read_large_dtm_register", "write_large_dtm_register",
     "schedule_read_large_dtm_register", "schedule_write_large_dtm_register"}

WideReads == {"read_large_dtm_register", "schedule_read_large_dtm_register"}

IsSlotOp(e) == e.op # "NoOp"

\* the DMI operations of the call that address a register (a read is followed
\* by the NoOp that fetches its result)
SlotOps == SelectSeq(last.tr, IsSlotOp)

SlotCount(w) == IF w = A128 THEN 4 ELSE 2

\* the wide register the call is about, as the DM holds it
Bank == IF last.arg[2] = DATA0 THEN dm.data ELSE dm.sbdata

\* C12: every 64-bit or 128-bit access to data0..3 or sbdata0..3, immediate or
\* scheduled, read or write, issues its operations on the slots from the highest
\* down to slot 0, also when the link fails part-way: slot 0 is accessed after all
\* higher slots.  A write writes slot i with bits 32i+31..32i of the value; an
\* immediate read returns the words read, slot i at bits 32i+31..32i.
WideSlotOrder ==
    last.op \in WideCalls =>
        /\ Len(SlotOps) <= SlotCount(last.arg[1])
        /\ last.err = Ok => Len(SlotOps) = SlotCount(last.arg[1])
        /\ \A i \in DOMAIN SlotOps :
              /\ SlotOps[i].addr = LargeSlot(last.arg[2], SlotCount(last.arg[1]) - i)
              /\ SlotOps[i].op = IF last.op \in WideReads THEN "Read" ELSE "Write"
              /\ last.op \notin WideReads =>
                     SlotOps[i].val = last.arg[3][SlotCount(last.arg[1]) - i + 1]
        /\ (last.op = "read_large_dtm_register" /\ last.err = Ok) =>
               last.out = SubSeq(Bank, 1, SlotCount(last.arg[1]))

WideSlotOrderSeen ==
    /\ last.op = "read_large_dtm_register"
    /\ last.arg = <<A128, DATA0>>
    /\ last.err = Ok
    /\ last.out = <<V1, V2, V3, V4>>
    /\ SlotOps[1].addr = DATA0 + 3
    /\ SlotOps[4].addr = DATA0

\* the target accesses of the call that returned: 32-bit accesses at a and at starting
\* address + 4, in this order, each of the kinds given
WordPairAt(kinds) ==
    /\ Len(last.acc) = 2
    /\ \A i \in 1..2 : last.acc[i][1] \in kinds /\ last.acc[i][3] = 4
    /\ last.acc[1][2] = last.arg[1].word
    /\ last.acc[2][2] = AddWW(last.arg[1].word, W(4))

\* the call that returned is read_word_64(a) right after an Ok write_word_64(a, v)
ReadAfterWrite64 ==
    /\ last.op = "read_word_64"
    /\ last.after # <<>>
    /\ last.after[1] = "write_word_64"
    /\ last.after[2][1] = last.arg[1]

EntryPoints ==
    {"read_word_8", "read_word_32", "read_word_64", "read_8", "read_32", "read_64",
     "write_word_8", "write_word_32", "write_word_64", "write_8", "write_32", "write_64"}

\* C14: a call of any of the twelve MemoryInterface entry points with an address
\* that does not fit in 32 bits returns an error, issues no DMI operation and
\* leaves the interface state (access-method map, progbuf cache, capability map)
\* and the target as they were.
InvalidAddressRejected ==
    [][(last'.op \in EntryPoints /\ last'.arg[1].upper # 0) =>
           /\ last'.err.kind = "Other"
           /\ last'.tr = <<>>
           /\ st' = st
           /\ dm' = dm]_vars

InvalidAddressRejectedSeen ==
    /\ last.op = "write_64"
    /\ last.arg[1].upper = 1
    /\ Len(last.arg[2]) = 2
    /\ last.err.kind = "Other"
    /\ last.tr = <<>>
    /\ st.memory_access_info[A32] = "Absent"

\* the width whose access method the entry point looks up: V::WIDTH in read_word,
\* write_word and write_multiple, A32 in read_multiple; the 64-bit entry points
\* go through read_word and write_word of u32
LookedUp(op) == IF op \in {"read_word_8", "write_word_8", "write_8"} THEN A8 ELSE A32

\* the call that returned looked up a width recorded as AbstractCommand
AbstractSelected ==
    /\ last.op \in EntryPoints
    /\ last.arg[1].upper = 0
    /\ last.op = "read_64" => last.arg[2] > 0
    /\ last.op = "write_64" => Len(last.arg[2]) > 0
    /\ st.memory_access_info[LookedUp(last.op)] = "AbstractCommand"

\* C15: a memory operation whose dispatch finds AbstractCommand as the access
\* method ends in the unimplemented!() failure: it has issued no DMI operation and
\* run neither the system bus nor the program buffer engine.
UnimplementedIsExplicit ==
    AbstractSelected =>
        /\ last.err = [kind |-> "panic", name |-> "unimplemented", num |-> 0]
        /\ last.tr = <<>>
        /\ last.acc = <<>>

UnimplementedIsExplicitSeen ==
    /\ AbstractSelected
    /\ last.op = "write_8"
    /\ Len(last.arg[2]) = 2
    /\ st.memory_access_info[A32] = "SystemBus"
    /\ last.err.name = "unimplemented"
    /\ last.tr = <<>>

\* C16: for every register id, the READ and the WRITE abstract-command support
\* bit (both set while the register has no entry) never change from cleared to
\* set, whatever operation runs.
SupportOnlyNarrows ==
    [][\A r \in Regnos : \A rw \in {READ, WRITE} :
           check_abstract_cmd_register_support(st', r, rw)
               => check_abstract_cmd_register_support(st, r, rw)]_vars

\* both bits of a register have been cleared, one after the other
SupportOnlyNarrowsSeen ==
    /\ last.op = "abstract_cmd_register_write"
    /\ last.arg[1] = CsrA
    /\ last.err.name = "NotSupported"
    /\ last.tr # <<>>
    /\ CsrA \in DOMAIN st.abstract_cmd_register_info
    /\ st.abstract_cmd_register_info[CsrA] = 0

\* the Debug Module never clears abstractcs.busy once a command has started
BusyForever == hw.latency = -1

CommandWrites(tr) == Cardinality({i \in DOMAIN tr : IsCommandWrite(tr[i])})

\* C17: on a Debug Module that never clears abstractcs.busy after a command is
\* posted, every execute_abstract_command that posts its command returns, and
\* returns Timeout: it does not return Ok, the polling loop does not go on
\* forever once the timeout has elapsed, and the command is written exactly once.
TimeoutWhenBusyForever ==
    /\ []((last.op = "execute_abstract_command" /\ BusyForever /\ CommandWrites(last.tr) > 0)
            => (last.err = [kind |-> "Timeout", name |-> "", num |-> 0]
                /\ CommandWrites(last.tr) = 1))
    /\ []((last.op = "polling" /\ BusyForever) => CommandWrites(last.tr) = 1)
    /\ ((last.op = "polling" /\ BusyForever)
            ~> (last.op = "execute_abstract_command" /\ last.err.kind = "Timeout"))

TimeoutWhenBusyForeverSeen ==
    /\ last.op = "execute_abstract_command"
    /\ BusyForever
    /\ last.err.kind = "Timeout"
    /\ CommandWrites(last.tr) = 1
    /\ Len(last.tr) > 4 + 2 * MaxTurns
    /\ dm.busy = -1

\* len(data) + 1, or len(data) where an implicit ebreak follows the buffer
RequiredLen(s, data) == IF s.implicit_ebreak THEN Len(data) ELSE Len(data) + 1

\* C18: setup_program_buffer(data) fails with ProgramBufferTooSmall exactly when
\* len(data) + (implicit_ebreak ? 0 : 1) > progbuf_size; when it does, it has
\* issued no DMI operation, and the progbuf cache (with the rest of the state and
\* the target) is as it was.
TooSmallExactly ==
    [][last'.op = "setup_program_buffer" =>
           /\ last'.err.kind = "ProgramBufferTooSmall"
                  <=> RequiredLen(st, last'.arg[1]) > st.progbuf_size
           /\ last'.err.kind = "ProgramBufferTooSmall" =>
                  /\ last'.tr = <<>>
                  /\ st' = st
                  /\ dm' = dm]_vars

TooSmallExactlySeen ==
    /\ last.op = "setup_program_buffer"
    /\ last.err.kind = "ProgramBufferTooSmall"
    /\ st.implicit_ebreak
    /\ Len(last.arg[1]) = st.progbuf_size + 1
    /\ last.tr = <<>>
    /\ SubSeq(st.progbuf_cache, 1, 3) = SubSeq(last.arg[1], 1, 3)

\* the call that returned is a setup_program_buffer right after an Ok
\* setup_program_buffer
SetupAfterSetup ==
    /\ last.op = "setup_program_buffer"
    /\ last.after # <<>>
    /\ last.after[1] = "setup_program_buffer"

\* the program written successfully last: that of the call that returned if it
\* returned Ok, that of the call before it if not
LastWritten == IF last.err = Ok THEN last.arg[1] ELSE last.after[2][1]

\* C19: when a setup_program_buffer that follows a successful one returns, Ok or
\* Err, the progbuf cache holds at the indices below k what the target's program
\* buffer holds there, k being the length of the program written successfully
\* last; also when a DMI write fails part-way through the upload.
CacheMatchesTarget ==
    SetupAfterSetup =>
        \A i \in 1..Len(LastWritten) : st.progbuf_cache[i] = dm.progbuf[i]

SingleReads == {"read_word_32", "read_word_8"}

ReadWidth == IF last.op = "read_word_32" THEN A32 ELSE A8

SingleSysbusRead ==
    /\ last.op \in SingleReads
    /\ last.arg[1].upper = 0
    /\ memory_access_method(st, ReadWidth) = "SystemBus"

IsDmi(t, op, addr) == t.op = op /\ t.addr = addr

\* C20: a single-word system-bus read of width V at addr issues exactly the DMI
\* operations write sbcs (sbaccess = the code of V, sbreadonaddr set), write
\* sbaddress0 = addr, Read and NoOp of sbdata0, Read and NoOp of sbcs; it
\* returns the value of sbdata0 when sberror is 0 and fails with
\* SystemBusAccess when sberror is not 0.
SysbusReadSequence ==
    SingleSysbusRead =>
        /\ Len(last.tr) = 6
        /\ IsDmi(last.tr[1], "Write", SBCS)
        /\ SbcsSbaccess(last.tr[1].val) = ReadWidth
        /\ SbcsSbreadonaddr(last.tr[1].val)
        /\ IsDmi(last.tr[2], "Write", SBADDRESS0)
        /\ last.tr[2].val = last.arg[1].word
        /\ IsDmi(last.tr[3], "Read", SBDATA0)
        /\ last.tr[4].op = "NoOp"
        /\ IsDmi(last.tr[5], "Read", SBCS)
        /\ last.tr[6].op = "NoOp"
        /\ dm.sberror = 0 => (last.err = Ok /\ last.ret = dm.sbdata[1])
        /\ dm.sberror # 0 => last.err = SystemBusAccess

SysbusReadSequenceSeen ==
    /\ SingleSysbusRead
    /\ last.op = "read_word_32"
    /\ last.err = Ok
    /\ last.ret = V1
    /\ last.after # <<>>

SysbusReadFailureSeen ==
    /\ SingleSysbusRead
    /\ last.op = "read_word_8"
    /\ hw = HwByteBus
    /\ last.err = SystemBusAccess

(***************************************************************************)
(* The engines' steps, as the Debug Module sees them                       *)
(***************************************************************************)
ProgbufRegs == {PROGBUF0 + i : i \in 0..15}

\* the host writes that make up an engine's steps: commands, data0, program words
IsStep(e) == e.op = "Write" /\ e.addr \in {COMMAND, DATA0} \cup ProgbufRegs

Steps == SelectSeq(last.tr, IsStep)

Step(addr, val) == [addr |-> addr, val |-> val]

StepOf(e) == Step(e.addr, e.val)

StepsOf(tr) == [i \in DOMAIN tr |-> StepOf(tr[i])]

IsPrefix(s, t) == Len(s) <= Len(t) /\ \A i \in DOMAIN s : s[i] = t[i]

ReadRegister(regno) == <<Step(COMMAND, AccessRegisterCommand(0, A32, FALSE, TRUE, FALSE, regno))>>

WriteRegister(regno, v) ==
    <<Step(DATA0, v), Step(COMMAND, AccessRegisterCommand(0, A32, FALSE, TRUE, TRUE, regno))>>

Upload(prog) == [i \in 1..Len(prog) |-> Step(PROGBUF0 + i - 1, prog[i])]

PostexecWriteS1 == Step(COMMAND, AccessRegisterCommand(0, A32, TRUE, TRUE, TRUE, S1))

SingleWrites == {"write_word_32", "write_word_8"}

SingleProgbufWrite ==
    /\ last.op \in SingleWrites
    /\ last.arg[1].upper = 0
    /\ memory_access_method(st, WidthOf(last.op)) = "ProgramBuffer"

\* the steps of a single write, with the upload up made or skipped
SingleWriteSteps(up) ==
    ReadRegister(S0) \o ReadRegister(S1)
    \o up
    \o WriteRegister(S0, last.arg[1].word)
    \o <<Step(DATA0, last.arg[2]), PostexecWriteS1>>
    \o WriteRegister(S0, last.x[8]) \o WriteRegister(S1, last.x[9])

StoreProgram == <<sw(0, 8, WidthOf(last.op), 9), EBREAK>>

\* the abstractcs read that follows the i-th operation at once
CheckedAfter(tr, i) ==
    /\ Len(tr) >= i + 2
    /\ tr[i + 1].op = "Read" /\ tr[i + 1].addr = ABSTRACTCS
    /\ tr[i + 2].op = "NoOp"

PostexecChecked ==
    \A i \in DOMAIN last.tr :
        (IsCommandWrite(last.tr[i]) /\ CommandPostexec(last.tr[i].val) /\ i + 2 <= Len(last.tr))
        => CheckedAfter(last.tr, i)

MultiReads == {"read_32", "read_8"}

\* read_multiple looks the method of A32 up, whatever the width
MultiProgbufRead ==
    /\ last.op \in MultiReads
    /\ last.arg[1].upper = 0
    /\ last.arg[2] >= 1
    /\ memory_access_method(st, A32) = "ProgramBuffer"

SeedS0 == Step(COMMAND, AccessRegisterCommand(0, A32, TRUE, TRUE, TRUE, S0))

PostexecReadS1 == Step(COMMAND, AccessRegisterCommand(0, A32, TRUE, TRUE, FALSE, S1))

Repeat(x, k) == [i \in 1..k |-> x]

LoadProgram ==
    <<lw(0, 8, WidthOf(last.op), 9), addi(8, 8, byte_width(WidthOf(last.op))), EBREAK>>

\* the steps of a read of n words, with the upload up made or skipped
MultiReadSteps(up, n) ==
    ReadRegister(S0) \o ReadRegister(S1)
    \o up
    \o <<Step(DATA0, last.arg[1].word), SeedS0>>
    \o Repeat(PostexecReadS1, n - 1)
    \o ReadRegister(S1)
    \o WriteRegister(S0, last.x[8]) \o WriteRegister(S1, last.x[9])

\* the reads of abstractcs made right after a read of data0: the engine's own
\* status check (execute_abstract_command reads abstractcs after dmcontrol and
\* after its command)
StatusReads(tr) ==
    {i \in DOMAIN tr : /\ i > 2
                       /\ IsDmi(tr[i], "Read", ABSTRACTCS)
                       /\ IsDmi(tr[i - 2], "Read", DATA0)}

\* C22: between saving and restoring s0 and s1, a program buffer read of
\* n >= 1 words posts one command writing data0 to s0 with postexec, n - 1
\* commands reading s1 with postexec, each followed by a read of data0, and
\* one plain read of s1, and then checks abstractcs once.
MultiReadOrder ==
    MultiProgbufRead =>
        /\ \/ IsPrefix(StepsOf(Steps), MultiReadSteps(Upload(LoadProgram), last.arg[2]))
           \/ IsPrefix(StepsOf(Steps), MultiReadSteps(<<>>, last.arg[2]))
        /\ \A i \in DOMAIN last.tr :
              (StepOf(last.tr[i]) = PostexecReadS1 /\ i < Len(last.tr))
              => IsDmi(last.tr[i + 1], "Read", DATA0)
        /\ \A i \in DOMAIN last.tr :
              (StepOf(last.tr[i]) = SeedS0 /\ i < Len(last.tr))
              => ~IsDmi(last.tr[i + 1], "Read", ABSTRACTCS)
        /\ Cardinality(StatusReads(last.tr)) <= 1
        /\ last.err = Ok =>
              /\ Len(Steps) >= Len(MultiReadSteps(<<>>, last.arg[2]))
              /\ Cardinality(StatusReads(last.tr)) = 1

MultiReadOrderSeen ==
    /\ MultiProgbufRead
    /\ last.arg[2] = 4
    /\ last.err = Ok
    /\ StepsOf(Steps) = MultiReadSteps(Upload(LoadProgram), 4)


\* the target's buffer ends right after n words
TerminatedAfter(n) ==
    IF n < st.progbuf_size THEN dm.progbuf[n + 1] = EBREAK ELSE hw.impebreak

\* C23: whenever setup_program_buffer(data) returns Ok, after any sequence of
\* setup_program_buffer calls with other programs, the target's program buffer
\* holds data[i] at every index below len(data) and ends right after them, with
\* an ebreak at index len(data) or with the implicit ebreak of a full buffer.
SetupHoldsProgram ==
    (last.op = "setup_program_buffer" /\ last.err = Ok) =>
        /\ \A i \in 1..Len(last.arg[1]) : dm.progbuf[i] = last.arg[1][i]
        /\ TerminatedAfter(Len(last.arg[1]))


\* a command posted by the engine itself has left cmderr set
LatchedInLoop(tr) ==
    \E i \in DOMAIN tr :
        /\ tr[i].cmderr # 0
        /\ \E j \in 1..(i - 1) :
              StepOf(tr[j]) \in {SeedS0, PostexecReadS1}

\* C24: when an execution of the program buffer during a multi-word program
\* buffer read latches cmderr, the read does not return Ok: it fails, with
\* AbstractCommand(kind) unless the link itself failed.
LatchedErrorFails ==
    (MultiProgbufRead /\ LatchedInLoop(last.tr)) =>
        /\ last.err # Ok
        /\ last.err.kind \in {"AbstractCommand", "DmiTransfer"}


MultiWrites == {"write_32", "write_8"}

MultiProgbufWrite ==
    /\ last.op \in MultiWrites
    /\ last.arg[1].upper = 0
    /\ memory_access_method(st, WidthOf(last.op)) = "ProgramBuffer"

\* the value of width w the target's memory holds at address a + k
Stored(a, k, w) == MemLoad(dm.mem, AddWW(a, <<0, k>>), 0, byte_width(w))

\* C25: a multi-word write through the program buffer that returns Ok, after
\* any sequence of successful operations, has stored the i-th value at
\* addr + i * byte_width(V).
MultiWriteStores ==
    (MultiProgbufWrite /\ last.err = Ok) =>
        \A i \in 1..Len(last.arg[2]) :
            Stored(last.arg[1].word, (i - 1) * byte_width(WidthOf(last.op)), WidthOf(last.op))
                = last.arg[2][i]


ByteWidthOf(op) == byte_width(WidthOf(op))

\* the loads a read of n values at a makes: one per value, in ascending order
LoadsOf(a, n, w) == [i \in 1..n |-> <<"load", AddWW(a, <<0, (i - 1) * byte_width(w)>>), byte_width(w)>>]

KindName(cmderr) ==
    CASE cmderr = 1 -> "Busy"
      [] cmderr = 2 -> "NotSupported"
      [] cmderr = 3 -> "Exception"
      [] cmderr = 4 -> "HaltResume"
      [] cmderr = 5 -> "Bus"
      [] cmderr = 6 -> "_Reserved"
      [] cmderr = 7 -> "Other"

ExecutedCommand ==
    /\ last.op = "execute_abstract_command"
    /\ last.err.kind # "DmiTransfer"

\* the abstractcs read before the command showed a latched error
ClearedFirst(tr) == tr[2].cmderr # 0

\* the position of the write of the command register
PostedAt(tr) == IF ClearedFirst(tr) THEN 5 ELSE 4

\* the positions of the abstractcs reads of the polling loop
PollsOf(tr) == {j \in (PostedAt(tr) + 1)..Len(tr) : (j - PostedAt(tr)) % 2 = 1}

LastPoll(tr) == tr[Len(tr) - 1]

HaltResumeSeen ==
    /\ ExecutedCommand
    /\ last.err = Err("AbstractCommand", "HaltResume", 4)


WriteOf(r) == last.op = "abstract_cmd_register_write" /\ last.arg[1] = r

\* the call has returned to its caller, which may go on to later calls
Returned == last.op = "idle"

RefusedUnsent(r) == WriteOf(r) => (last.err = NotSupported /\ last.tr = <<>>)

\* C28: once abstract_cmd_register_write(r, v) has returned
\* AbstractCommand(NotSupported), every later abstract_cmd_register_write(r, _)
\* returns AbstractCommand(NotSupported) without any DMI operation.
WriteNotSupportedMemoized ==
    \A r \in Regnos :
        []((WriteOf(r) /\ last.err = NotSupported) => [](Returned => []RefusedUnsent(r)))

WriteNotSupportedMemoizedSeen ==
    /\ WriteOf(CsrA)
    /\ last.err = NotSupported
    /\ last.tr = <<>>


\* the size check passed and the cache does not begin with data
Uploads(s, data) ==
    /\ RequiredLen(s, data) <= s.progbuf_size
    /\ data # SubSeq(s.progbuf_cache, 1, Len(data))

NeedsEbreak(s, data) == ~s.implicit_ebreak \/ Len(data) < s.progbuf_size

UploadSteps(s, data) ==
    Upload(data)
    \o (IF NeedsEbreak(s, data) THEN <<Step(PROGBUF0 + Len(data), EBREAK)>> ELSE <<>>)

CacheWith(s, data) ==
    [i \in DOMAIN s.progbuf_cache |->
        IF i <= Len(data) THEN data[i] ELSE s.progbuf_cache[i]]

\* C29: when setup_program_buffer(data) uploads (the size check passed, no
\* cache hit), it writes progbuf[i] = data[i] in ascending order, then ebreak at
\* index len(data) exactly when !implicit_ebreak or len(data) < progbuf_size,
\* and nothing else; progbuf_cache[0..len(data)] is updated when all of these
\* writes have succeeded, and is left as it was when one of them failed.
UploadInOrder ==
    [][(last'.op = "setup_program_buffer" /\ Uploads(st, last'.arg[1])) =>
           /\ \A i \in DOMAIN last'.tr : last'.tr[i].op = "Write"
           /\ IsPrefix(StepsOf(last'.tr), UploadSteps(st, last'.arg[1]))
           /\ last'.err = Ok <=> StepsOf(last'.tr) = UploadSteps(st, last'.arg[1])
           /\ last'.err = Ok => st'.progbuf_cache = CacheWith(st, last'.arg[1])
           /\ last'.err # Ok => st'.progbuf_cache = st.progbuf_cache]_vars

UploadInOrderSeen ==
    /\ last.op = "setup_program_buffer"
    /\ last.err = Ok
    /\ st.implicit_ebreak
    /\ Len(last.arg[1]) = st.progbuf_size
    /\ Len(last.tr) = Len(last.arg[1])

UploadFailedSeen ==
    /\ last.op = "setup_program_buffer"
    /\ last.err.kind = "DmiTransfer"
    /\ Len(last.tr) = 1


MultiSysbusRead ==
    /\ last.op \in MultiReads
    /\ last.arg[1].upper = 0
    /\ last.arg[2] >= 1
    /\ memory_access_method(st, A32) = "SystemBus"

Op(op, addr) == [op |-> op, addr |-> addr]

OpOf(e) == Op(e.op, e.addr)

OpsOf(tr) == [i \in DOMAIN tr |-> OpOf(tr[i])]

TwoPhase(addr) == <<Op("Read", addr), Op("NoOp", 0)>>

RECURSIVE Times(_, _)
Times(s, k) == IF k = 0 THEN <<>> ELSE s \o Times(s, k - 1)

\* the pipeline of a read of n values: the i-th read of sbdata0 is answered by
\* the operation at index 2 + 2 * i, the one handed back when it was scheduled
BurstOps(n) ==
    <<Op("Write", SBCS), Op("Write", SBADDRESS0)>>
    \o Times(TwoPhase(SBDATA0), n - 1)
    \o <<Op("Write", SBCS)>>
    \o TwoPhase(SBDATA0)
    \o TwoPhase(SBCS)

\* C30: a multi-word system bus read of n >= 1 values of up to 32 bits at addr
\* runs one pipeline (sbcs, sbaddress0, n - 1 reads of sbdata0, sbcs without
\* autoincrement, the last read of sbdata0, the read of sbcs), returns the
\* memory at addr + i * byte_width(V) as data[i], and fails with
\* SystemBusAccess exactly when the sbcs read at the end shows sberror # 0.
BurstReads ==
    MultiSysbusRead =>
        /\ OpsOf(last.tr) = BurstOps(last.arg[2])
        /\ last.tr[2].val = last.arg[1].word
        /\ SbcsSbaccess(last.tr[1].val) = WidthOf(last.op)
        /\ SbcsSbreadonaddr(last.tr[1].val)
        /\ SbcsSbreadondata(last.tr[1].val)
        /\ SbcsSbautoincrement(last.tr[1].val)
        /\ ~SbcsSbautoincrement(last.tr[2 * last.arg[2] + 1].val)
        /\ last.err = SystemBusAccess <=> dm.sberror # 0
        /\ last.err \in {Ok, SystemBusAccess}
        /\ last.err = Ok =>
              /\ Len(last.out) = last.arg[2]
              /\ \A i \in 1..last.arg[2] :
                    last.out[i] = Stored(last.arg[1].word, (i - 1) * ByteWidthOf(last.op),
                                         WidthOf(last.op))

BurstReadsSeen ==
    /\ MultiSysbusRead
    /\ last.op = "read_8"
    /\ last.arg[2] = 4
    /\ last.err = Ok
    /\ last.out[1] # last.out[2]
    /\ last.after # <<>>

(***************************************************************************)
(* System bus writes                                                       *)
(***************************************************************************)
WriteCalls == SingleWrites \cup MultiWrites

\* the values of the write that returned, the first at the lowest address
DataOf == IF last.op \in SingleWrites THEN <<last.arg[2]>> ELSE last.arg[2]

SysbusWrite ==
    /\ last.op \in WriteCalls
    /\ last.arg[1].upper = 0
    /\ memory_access_method(st, WidthOf(last.op)) = "SystemBus"

\* the pipeline of a write of n values
WriteOps(n) ==
    <<Op("Write", SBCS), Op("Write", SBADDRESS0)>>
    \o Times(<<Op("Write", SBDATA0)>>, n)
    \o TwoPhase(SBCS)

LinkFailed == last.err.kind = "DebugProbe"

\* C31: a system bus write of the values v0..v(n-1) of width V at addr executes,
\* in this order, the write of sbcs (sbaccess = the code of V, sbautoincrement
\* set, nothing else), the write of sbaddress0 = addr, one write of sbdata0 per
\* value and the read of sbcs; it fails with SystemBusAccess exactly when the
\* sbcs read shows sberror # 0, and when it returns Ok the value v_i is in
\* memory at addr + i * byte_width(V).
BusWrites ==
    SysbusWrite =>
        /\ IsPrefix(OpsOf(last.tr), WriteOps(Len(DataOf)))
        /\ ~LinkFailed => OpsOf(last.tr) = WriteOps(Len(DataOf))
        /\ Len(last.tr) >= 1 =>
              last.tr[1].val = SbcsWord(0, FALSE, WidthOf(last.op), TRUE, FALSE, 0, 0)
        /\ Len(last.tr) >= 2 => last.tr[2].val = last.arg[1].word
        /\ \A i \in 1..Len(DataOf) : Len(last.tr) >= 2 + i => last.tr[2 + i].val = DataOf[i]
        /\ last.err \in {Ok, SystemBusAccess, Err("DebugProbe", "", 0)}
        /\ last.err = SystemBusAccess <=> (~LinkFailed /\ dm.sberror # 0)
        /\ last.err = Ok =>
              \A i \in 1..Len(DataOf) :
                  Stored(last.arg[1].word, (i - 1) * ByteWidthOf(last.op), WidthOf(last.op))
                      = DataOf[i]

BusWritesSeen ==
    /\ SysbusWrite
    /\ last.op = "write_8"
    /\ last.arg[2] = <<B1, B2, B3, B4>>
    /\ last.err = Ok
    /\ Len(last.acc) = 4

\* a write past the end of the memory: SystemBusAccess
BusWriteFailureSeen ==
    /\ SysbusWrite
    /\ last.op = "write_32"
    /\ last.arg[2] = <<V1, V2>>
    /\ last.err = SystemBusAccess
    /\ Len(last.acc) = 0

(***************************************************************************)
(* CSR access through the program buffer                                   *)
(***************************************************************************)
CsrRead == last.op = "read_csr_progbuf"

CsrWrite == last.op = "write_csr_progbuf"

RequestedRange ==
    {AddWW(last.arg[1].word, <<0, i * ByteWidthOf(last.op)>>) : i \in 0..(last.arg[2] - 1)}

\* C33: the bus reads the Debug Module performs during a multi-word system bus
\* read of n values at addr are at addresses addr + i * byte_width(V), i < n,
\* only: none at addr + n * byte_width(V) nor anywhere else.
BusReadsInRange ==
    MultiSysbusRead =>
        \A i \in DOMAIN last.acc :
            last.acc[i][1] = "sbread" => last.acc[i][2] \in RequestedRange

\* the call that returned is a single system bus read or write
SingleSysbusAccess ==
    /\ last.op \in SingleReads \cup SingleWrites
    /\ last.arg[1].upper = 0
    /\ memory_access_method(st, WidthOf(last.op)) = "SystemBus"

\* ... of memory that is there
ValidSysbusAccess ==
    /\ SingleSysbusAccess
    /\ MappedRange(last.arg[1].word, ByteWidthOf(last.op))

SysbusAccessFailed == SingleSysbusAccess /\ last.err = SystemBusAccess

\* C34: once a system bus access has failed with SystemBusAccess, the system bus
\* accesses made after it to memory that is there return Ok: the sberror the
\* failed access latched does not fail them.  A step from a caller between two
\* calls, with sberror latched by a call before, to the return of such an access
\* ends in Ok.
BusErrorNotSticky ==
    [][(Calling /\ dm.sberror # 0 /\ ValidSysbusAccess') => last'.err = Ok]_vars

\* the same over whole behaviours
BusErrorNotStickyEver ==
    [](SysbusAccessFailed => [](Returned => [](ValidSysbusAccess => last.err = Ok)))

(***************************************************************************)
(* The host and a command that is still running                            *)
(***************************************************************************)
\* an operation the Debug Module answers with cmderr = Busy while a command runs
NeedsIdle(e) ==
    \/ IsCommandWrite(e)
    \/ e.op \in {"Read", "Write"} /\ e.addr = DATA0

\* a read of abstractcs that shows busy = 0
IdleObserved(e) == e.op = "Read" /\ e.addr = ABSTRACTCS /\ ~e.busy

\* C35: within a call, between a write of the command register and the next
\* access to data0 or write of the command register the host has read
\* abstractcs with busy = 0; so no operation of the host finds the Debug Module
\* with cmderr = Busy latched, and none leaves it so.
CommandAwaited ==
    /\ \A i \in DOMAIN last.tr : \A j \in DOMAIN last.tr :
          (i < j /\ IsCommandWrite(last.tr[i]) /\ NeedsIdle(last.tr[j]))
          => \E k \in (i + 1)..(j - 1) : IdleObserved(last.tr[k])
    /\ \A i \in DOMAIN last.tr : last.tr[i].cmderr # 1
    /\ dm.cmderr # 1

\* a write of two words on a Debug Module whose commands take time: Busy
BusyLatchedSeen ==
    /\ hw = HwLag
    /\ last.op = "write_32"
    /\ last.err = AbstractCommandErrorKind(1)

(***************************************************************************)
(* Buffers without elements                                                *)
(***************************************************************************)
EmptyRead ==
    /\ last.op \in MultiReads
    /\ last.arg[1].upper = 0
    /\ last.arg[2] = 0

\* C36: read_8 and read_32 into a buffer without elements return to their
\* caller, Ok or with an error: they do not panic.
EmptyReadReturns == EmptyRead => last.err.kind # "panic"

(***************************************************************************)
(* Address arithmetic of the 64-bit entry points                           *)
(***************************************************************************)
Calls64 == {"read_word_64", "write_word_64", "read_64", "write_64"}

\* x < y as unsigned 32-bit numbers
Below(x, y) == x[1] < y[1] \/ (x[1] = y[1] /\ x[2] < y[2])

\* C37: a 64-bit entry point called with an address that fits in 32 bits does
\* not abort on address + 4 or address + 8 * i, and accesses no address below
\* the one it was called with: the sums do not wrap around.
Address64InRange ==
    (last.op \in Calls64 /\ last.arg[1].upper = 0) =>
        /\ last.err.kind # "panic"
        /\ \A i \in DOMAIN last.tr :
              IsDmi(last.tr[i], "Write", SBADDRESS0)
              => ~Below(last.tr[i].val, last.arg[1].word)

\* the high word of read_word_64(0xFFFF_FFFC) is read at address 0
WrappedSeen ==
    /\ hw = HwWrapping
    /\ last.op = "read_word_64"
    /\ \E i \in DOMAIN last.tr : IsDmi(last.tr[i], "Write", SBADDRESS0) /\ last.tr[i].val = W0

(***************************************************************************)
(* The access-method map                                                   *)
(***************************************************************************)
\* C38: in every state the interface reaches from attach on, the access-method
\* map holds SystemBus or ProgramBuffer, or no entry, for every width, never
\* AbstractCommand, and no memory operation has taken the unimplemented branch.
NoAbstractCommandMethod ==
    /\ \A w \in Widths : st.memory_access_info[w] \in {"Absent", "SystemBus", "ProgramBuffer"}
    /\ last.err # Unimplemented

\* attach has recorded SystemBus for A16, a lookup ProgramBuffer for A32
NoAbstractCommandMethodSeen ==
    /\ last.op = "read_word_32"
    /\ last.err = Ok
    /\ st.memory_access_info[A16] = "SystemBus"
    /\ st.memory_access_info[A32] = "ProgramBuffer"
    /\ st.memory_access_info[A8] = "Absent"

(***************************************************************************)
(* The capability map of the abstract register accesses                    *)
(***************************************************************************)
RegisterAccesses == {"abstract_cmd_register_read", "abstract_cmd_register_write"}

\* the entry of r as check_abstract_cmd_register_support reads it
EntryOf(s, r) ==
    IF r \in DOMAIN s.abstract_cmd_register_info THEN s.abstract_cmd_register_info[r] ELSE BOTH

\* the direction the access that returned did not attempt
OtherDirection(op) == IF op = "abstract_cmd_register_read" THEN WRITE ELSE READ

\* the map after the call differs from the one before in the entry of r at most
OnlyEntryChanged(s, t, r) ==
    /\ DOMAIN t.abstract_cmd_register_info \subseteq DOMAIN s.abstract_cmd_register_info \cup {r}
    /\ \A q \in DOMAIN s.abstract_cmd_register_info \ {r} :
          /\ q \in DOMAIN t.abstract_cmd_register_info
          /\ t.abstract_cmd_register_info[q] = s.abstract_cmd_register_info[q]

\* C39: an abstract register access that returns anything but NotSupported
\* leaves the capability map as it was; one of register r that returns
\* NotSupported leaves the entries of all other registers as they were, and in
\* the entry of r the bit of the direction it did not attempt.
SupportFrame ==
    [][last'.op \in RegisterAccesses =>
          /\ last'.err # NotSupported =>
                st'.abstract_cmd_register_info = st.abstract_cmd_register_info
          /\ last'.err = NotSupported =>
                /\ OnlyEntryChanged(st, st', last'.arg[1])
                /\ supports(EntryOf(st', last'.arg[1]), OtherDirection(last'.op))
                     = supports(EntryOf(st, last'.arg[1]), OtherDirection(last'.op))]_vars

\* a write refused as NotSupported by the Debug Module after the read was: the
\* READ bit cleared before is still cleared, the WRITE bit is cleared now
SupportFrameSeen ==
    /\ last.op = "abstract_cmd_register_write"
    /\ last.arg[1] = CsrA
    /\ last.err = NotSupported
    /\ Len(last.tr) > 0
    /\ st.abstract_cmd_register_info[CsrA] = 0

\* an access that fails with another abstract command error, the map not empty
OtherErrorSeen(name) ==
    /\ last.op \in RegisterAccesses
    /\ last.err.kind = "AbstractCommand"
    /\ last.err.name = name
    /\ DOMAIN st.abstract_cmd_register_info # {}

BusySeen == OtherErrorSeen("Busy")

BusErrorSeen == OtherErrorSeen("Bus")

\* C40: every value a call has written to dmcontrol, in new's enter_debug_mode
\* and in every execute_abstract_command after it, has dmactive = 1, and the
\* Debug Module of a constructed interface is active after every call
CommandCalls ==
    {"abstract_cmd_register_read", "abstract_cmd_register_write", "read_word_32"}

DmactiveKept ==
    /\ \A i \in 1..Len(DmcontrolWrites) : DmcontrolDmactive(DmcontrolWrites[i].val)
    /\ Constructed => dm.dmactive

\* a call of a constructed interface has executed an abstract command
DmactiveKeptSeen ==
    /\ last.op \in CommandCalls
    /\ last.err = Ok
    /\ Constructed
    /\ Len(DmcontrolWrites) >= 1
    /\ dm.dmactive

\* new has written dmcontrol for the enable, the hartsel probe, a second hart
\* and the selection of hart 0
NewWritesSeen ==
    /\ last.op = "new"
    /\ last.err = Ok
    /\ Len(DmcontrolWrites) >= 4

\* the Debug Module stays active from step to step once it has been activated
DmactiveStable == [][dm.dmactive => dm'.dmactive]_vars
====
